---- MODULE Spec2Model ----
(***************************************************************************)
(* Model of src/index.js: the publish-back stage (publishVerticalOnce,     *)
(* runPublisherOnce, buildBriefMessage), the feed poller (pollOneFeed,     *)
(* runRssOnce), the processing trigger (runProcessorOnce), the message     *)
(* handler and the startup handler with the settings read by clampInt.     *)
(*                                                                         *)
(* The program is single-threaded and cooperative: every `await` is a      *)
(* suspension point.  One action of the model is the code that runs        *)
(* between two suspension points of one invocation.                        *)
(***************************************************************************)
EXTENDS Integers, Sequences, FiniteSets, TLC

(***************************************************************************)
(* Bounds of the model.                                                    *)
(***************************************************************************)
\* number of publish timer firings (runPublisherOnce invocations)
MaxRuns == 2

\* number of bullets and of tags of a rendered item
MaxBullets == 6
MaxTags == 7

(***************************************************************************)
(* JavaScript values and conversions.                                      *)
(* A raw value (JSON value or environment string) is a record              *)
(*   [k |-> kind, n |-> integer]                                           *)
(* with kind "undef" (undefined), "null", "empty" (the empty string),      *)
(* "int" (a number), "numstr" (a string spelling a whole number),          *)
(* "fracstr" (a string spelling n + 1/2, as "2.5"), "inf" (1e999,          *)
(* "Infinity") or "text" (a string that spells no number).                 *)
(* A number is NaN, PosInf, the whole number n or the number n + 1/2.      *)
(***************************************************************************)
Undef == [k |-> "undef", n |-> 0]
Null == [k |-> "null", n |-> 0]
EmptyStr == [k |-> "empty", n |-> 0]
Text == [k |-> "text", n |-> 0]
InfRaw == [k |-> "inf", n |-> 0]
IntRaw(i) == [k |-> "int", n |-> i]
StrNum(i) == [k |-> "numstr", n |-> i]
StrHalf(i) == [k |-> "fracstr", n |-> i]

NaN == [fin |-> FALSE, n |-> 0, half |-> FALSE]
PosInf == [fin |-> FALSE, n |-> 1, half |-> FALSE]
Fin(i) == [fin |-> TRUE, n |-> i, half |-> FALSE]
FinHalf(i) == [fin |-> TRUE, n |-> i, half |-> TRUE]

\* Number(x)
ToNumber(raw) ==
  CASE raw.k = "int" -> Fin(raw.n)
    [] raw.k = "numstr" -> Fin(raw.n)
    [] raw.k = "fracstr" -> FinHalf(raw.n)
    [] raw.k = "null" -> Fin(0)
    [] raw.k = "empty" -> Fin(0)
    [] raw.k = "inf" -> PosInf
    [] OTHER -> NaN

\* Number.isFinite(x)
IsFinite(x) == x.fin

\* x >= t for a number x and an integer t (NaN compares false)
NumGE(x, t) == IF x.fin THEN x.n >= t ELSE x = PosInf

\* x > t
NumGT(x, t) ==
  IF x.fin THEN (IF x.half THEN x.n >= t ELSE x.n > t) ELSE x = PosInf

\* Math.floor(x) for a finite x
Floor(x) == x.n

\* a ?? b
Coalesce(raw, dflt) == IF raw.k \in {"undef", "null"} THEN dflt ELSE raw

\* a || b  (0, "", null, undefined are falsy; the string "0" is not)
OrElse(raw, dflt) ==
  IF raw.k \in {"undef", "null", "empty"} \/ (raw.k = "int" /\ raw.n = 0)
  THEN dflt ELSE raw

Min2(a, b) == IF a <= b THEN a ELSE b
Max2(a, b) == IF a >= b THEN a ELSE b

\* a value outside [min, max] replaced by the default instead of the bound
clampIntOrDefault(raw, def, min, max) ==
  LET x == ToNumber(raw)
  IN IF ~IsFinite(x) \/ Floor(x) < min \/ Floor(x) > max THEN def ELSE Floor(x)

\* clampInt(n, def, min, max)
clampInt(raw, def, min, max) ==
  LET x == ToNumber(raw)
  IN IF ~IsFinite(x) THEN def ELSE Max2(min, Min2(max, Floor(x)))

(***************************************************************************)
(* logToBotLogs(msg).  The ways the call can go: the log channel is        *)
(* fetched and the line is sent, the channel is missing or not text-based, *)
(* the channel fetch is rejected, or the send is rejected.  The try/catch  *)
(* of the function swallows both rejections, so the call always returns.   *)
(***************************************************************************)
LogOutcomes == {"sent", "noTextChannel", "fetchRejected", "sendRejected"}

\* the try/catch left out: a rejection reaches the caller
logToBotLogsUncaught(outcome) ==
  IF outcome \in {"fetchRejected", "sendRejected"} THEN "raised" ELSE "returned"

logToBotLogs(outcome) == "returned"

(***************************************************************************)
(* Message rendering: fmtTags, fmtBullets, buildBriefMessage.              *)
(* A text is known by its length in UTF-16 code units and by how many of   *)
(* them are leading or trailing white space; a field of an item is a text  *)
(* or is missing.  A message is the sequence of its parts, each with its   *)
(* kind and length, and is either whole (the parts joined by "\n") or cut  *)
(* to its first `cut` code units and followed by the marker.               *)
(***************************************************************************)
Missing == [k |-> "undef", len |-> 0, pad |-> 0]
Str(len, pad) == [k |-> "str", len |-> len, pad |-> pad]

\* String(x ?? "").trim().length
TrimLen(t) == IF t.k = "undef" THEN 0 ELSE t.len - t.pad

\* `${x}`.length ("undefined" for a missing field)
TemplateLen(t) == IF t.k = "undef" THEN 9 ELSE t.len

\* String(n).length for a whole number n
RECURSIVE Digits(_)
Digits(n) ==
  IF n < 0 THEN 1 + Digits(0 - n) ELSE IF n < 10 THEN 1 ELSE 1 + Digits(n \div 10)

\* String(x).length for a number x ("NaN", "Infinity", "2.5")
NumLen(x) ==
  IF x = NaN THEN 3
  ELSE IF ~x.fin THEN 8
  ELSE Digits(x.n) + (IF x.half THEN 2 ELSE 0)

\* the non-blank elements of an array of texts, trimmed
RECURSIVE Cleaned(_)
Cleaned(q) ==
  IF q = <<>> THEN <<>>
  ELSE IF TrimLen(Head(q)) = 0 THEN Cleaned(Tail(q))
  ELSE <<TrimLen(Head(q))>> \o Cleaned(Tail(q))

FirstN(q, n) == SubSeq(q, 1, IF Len(q) < n THEN Len(q) ELSE n)

RECURSIVE SumSeq(_)
SumSeq(q) == IF q = <<>> THEN 0 ELSE Head(q) + SumSeq(Tail(q))

\* q.join(sep).length for the lengths q and a separator of length sep
JoinLen(q, sep) == IF q = <<>> THEN 0 ELSE SumSeq(q) + sep * (Len(q) - 1)

NotArray == [array |-> FALSE, elems |-> <<>>]
Array(q) == [array |-> TRUE, elems |-> q]

\* fmtTags(tags): the length of the block "\n**Tags:** a, b", 0 for ""
fmtTags(tags) ==
  LET cleaned == FirstN(Cleaned(tags.elems), 6)
  IN IF ~tags.array \/ cleaned = <<>> THEN 0 ELSE 11 + JoinLen(cleaned, 2)

\* fmtBullets(bullets): the lengths of the lines "• b" of the block; the
\* texts of the model start with no list marker for the replace to remove
fmtBullets(bullets) ==
  LET cleaned == FirstN(Cleaned(bullets.elems), 5)
  IN IF ~bullets.array THEN <<>>
     ELSE [n \in 1..Len(cleaned) |-> 2 + cleaned[n]]

Part(kind, len) == [kind |-> kind, len |-> len]

\* [...].filter(Boolean): the parts that are not the empty string
NonEmpty(parts) == SelectSeq(parts, LAMBDA part : part.len > 0)

Whole(parts) == [parts |-> parts, cut |-> 0, marker |-> FALSE]

\* the length of the text of a message
MsgLength(mg) ==
  IF mg.marker THEN mg.cut + 1
  ELSE JoinLen([n \in 1..Len(mg.parts) |-> mg.parts[n].len], 1)

\* msg.slice(0, n) + "…"
Sliced(mg, n) == [mg EXCEPT !.cut = n, !.marker = TRUE]

\* the header line
Header(it, verticalLabel) ==
  27 + verticalLabel.len
     + NumLen(ToNumber(Coalesce(it.relevance_score, IntRaw(0))))

\* parts.join("\n") for the parts of the item with the bullet lines given
\* and the tag block given
Rendering(it, verticalLabel, lines, tagsBlock) ==
  LET title == IF TrimLen(it.title) = 0 THEN 10 ELSE TrimLen(it.title)
      summary == TrimLen(it.summary_1)
      why == TrimLen(it.why_it_matters)
      url == TrimLen(it.url)
  IN Whole(NonEmpty(
       << Part("header", Header(it, verticalLabel)),
          Part("title", 5 + title),
          Part("summary", IF summary > 0 THEN 1 + summary ELSE 0),
          Part("bullets", IF lines # <<>> THEN 1 + JoinLen(lines, 1) ELSE 0),
          Part("why", IF why > 0 THEN 21 + why ELSE 0),
          Part("tags", tagsBlock),
          Part("source", IF url > 0 THEN 13 + url ELSE 0) >>))

\* the first rendering: every bullet line and the tags
FullRendering(it, verticalLabel) ==
  Rendering(it, verticalLabel, fmtBullets(it.bullets), fmtTags(it.tags))

\* the second rendering: bulletsBlock.split("\n").slice(0, 3), no tags
ShortRendering(it, verticalLabel) ==
  Rendering(it, verticalLabel, FirstN(fmtBullets(it.bullets), 3), 0)

\* the second rendering returned whatever its length
buildBriefMessageUncut(it, verticalLabel) ==
  IF MsgLength(FullRendering(it, verticalLabel)) > 1900
  THEN ShortRendering(it, verticalLabel)
  ELSE FullRendering(it, verticalLabel)

buildBriefMessage(it, verticalLabel) ==
  LET msg1 == FullRendering(it, verticalLabel)
      msg2 == IF MsgLength(msg1) > 1900
              THEN ShortRendering(it, verticalLabel)
              ELSE msg1
  IN IF MsgLength(msg2) > 1900 THEN Sliced(msg2, 1890) ELSE msg2

NotRendered == [parts |-> <<>>, cut |-> 0, marker |-> FALSE]

\* verticalLabel of publishVerticalOnce: "REE" or "Coal"
Labels == {[text |-> "REE", len |-> 3], [text |-> "Coal", len |-> 4]}

\* the items rendered: each field missing or present, the summary of every
\* length around the ceiling, more bullets and tags than are kept
BriefItems ==
  [title : {Missing, Str(22, 2)},
   summary_1 : {Missing, Str(3000, 0)} \cup {Str(n, 0) : n \in 1400..1900},
   why_it_matters : {Missing, Str(60, 1)},
   url : {Missing, Str(40, 0)},
   bullets : {NotArray, Array(<<Str(40, 0), Str(1, 1), Str(44, 4)>>),
              Array([n \in 1..MaxBullets |-> Str(40, 0)])},
   tags : {NotArray, Array([n \in 1..MaxTags |-> Str(10, 0)])},
   relevance_score : {IntRaw(85)}]

(***************************************************************************)
(* The backend's pool of publishable items: vertical, id and               *)
(* relevance_score as the unposted query returns them.  The pool holds a   *)
(* score equal to the default threshold, one below it, a non-finite score  *)
(* (JSON 1e999 parses to Infinity) and an item whose id is not positive.   *)
(* The first item has a summary longer than a message can be.              *)
(***************************************************************************)
Verticals == {"ree", "coal"}
Runs == 1..MaxRuns

PoolItem(vertical, id, score, summary, url) ==
  [vertical |-> vertical, id |-> id, relevance_score |-> score,
   title |-> Str(20, 0), summary_1 |-> summary, why_it_matters |-> Missing,
   url |-> url, bullets |-> NotArray, tags |-> NotArray]

Pool ==
  << PoolItem("ree", IntRaw(1), IntRaw(85), Str(3000, 0), Str(60, 0)),
     PoolItem("ree", IntRaw(2), IntRaw(84), Str(100, 0), Str(60, 0)),
     PoolItem("coal", IntRaw(3), InfRaw, Str(100, 0), Str(60, 0)),
     PoolItem("ree", IntRaw(0), IntRaw(90), Str(100, 0), Missing) >>

Items == 1..Len(Pool)

(***************************************************************************)
(* State of the publisher.                                                 *)
(***************************************************************************)
VARIABLES
  publishLocks,   \* publishLocks[v]: the per-vertical reentrancy flag
  run,            \* run[p]: the p-th runPublisherOnce invocation
  posted,         \* backend: items for which mark-posted has succeeded
  briefChannel,   \* briefChannel[v]: CFG.channels.reeBrief / coalBrief is set
  triageEnv,      \* process.env.COCKPIT_TRIAGE_SCORE
  sends,          \* sends[i]: completed ch.send calls for item i, all cycles
  redo,           \* redo[i]: rejected triage sends and markPosted calls for i
  crashLogs       \* the "Publisher crash (v)" lines logged: <<invocation, v>>

pubVars ==
  <<publishLocks, run, posted, briefChannel, triageEnv, sends, redo,
               crashLogs>>

(***************************************************************************)
(* State of the feed poller.                                               *)
(***************************************************************************)
VARIABLES
  poll,          \* the locals of the poll in progress
  reports,       \* bodies of the poll reports posted by this poll, in order
  forwarded,     \* indices of the items passed to ingestRssItem, in order
  seenCalls,     \* seen-key queries posted by this poll
  result,        \* what the poll returned
  rssMaxEnv,     \* process.env.COCKPIT_RSS_MAX_ITEMS_PER_FEED
  secDelayEnv    \* process.env.COCKPIT_SEC_DELAY_MS

feedVars == <<poll, reports, forwarded, seenCalls, result, rssMaxEnv, secDelayEnv>>

(***************************************************************************)
(* State of the feed-poll cycle (runRssOnce).                              *)
(***************************************************************************)
VARIABLES
  rssPolling,    \* the reentrancy flag of the feed-poll cycle
  rss,           \* rss[p]: the p-th runRssOnce invocation
  listed,        \* the source listing the cycle got from the backend
  polled,        \* the calls of pollOneFeed, in order: source and outcome
  rssLogs        \* the lines runRssOnce has passed to logToBotLogs, in order

rssVars == <<rssPolling, rss, listed, polled, rssLogs>>

(***************************************************************************)
(* State of the message handler (client.on("messageCreate")).              *)
(***************************************************************************)
VARIABLES
  msg,           \* the message and the locals of the handler invocation
  submitted,     \* the calls of ingestOne, in order: url and outcome
  reactions,     \* the reactions applied to the message, in order
  msgLogs        \* the lines the handler has passed to logToBotLogs, in order

msgVars == <<msg, submitted, reactions, msgLogs>>

(***************************************************************************)
(* State of the processing trigger (runProcessorOnce).                     *)
(***************************************************************************)
VARIABLES
  proc,          \* proc[p]: the p-th runProcessorOnce invocation
  procEnv,       \* the variables among ProcessSettings that are set
  procLogs       \* the lines passed to logToBotLogs: <<invocation, kind>>

procVars == <<proc, procEnv, procLogs>>

(***************************************************************************)
(* State of the startup handler (client.once("ready")) and the settings.   *)
(***************************************************************************)
VARIABLES
  ready,         \* position of the ready handler
  env,           \* env[name]: process.env[name] for the settings of Settings
  values,        \* values[name]: what clampInt returned where name is read
  timers         \* the timers the ready handler has started

readyVars == <<ready, env, values, timers>>

(***************************************************************************)
(* A call of buildBriefMessage(item, verticalLabel).                       *)
(***************************************************************************)
VARIABLES
  briefItem,     \* the item rendered
  briefLabel,    \* verticalLabel
  brief          \* the message returned, NotRendered before the call

briefVars == <<briefItem, briefLabel, brief>>

vars ==
  <<pubVars, feedVars, rssVars, msgVars, procVars, readyVars, briefVars>>

\* what the steps of one part of the program leave alone
notPubVars ==
  <<feedVars, rssVars, msgVars, procVars, readyVars, briefVars>>
notFeedVars ==
  <<pubVars, rssVars, msgVars, procVars, readyVars, briefVars>>
notRssVars ==
  <<pubVars, msgVars, procVars, readyVars, briefVars>>
notMsgVars ==
  <<pubVars, feedVars, rssVars, procVars, readyVars, briefVars>>
notProcVars ==
  <<pubVars, feedVars, rssVars, msgVars, readyVars, briefVars>>
notBriefVars ==
  <<pubVars, feedVars, rssVars, msgVars, procVars, readyVars>>
notReadyVars ==
  <<pubVars, feedVars, rssVars, msgVars, procVars, briefVars>>

(***************************************************************************)
(* publishVerticalOnce, runPublisherOnce.                                  *)
(*                                                                         *)
(* run[p].pc is the await the invocation is suspended at:                  *)
(*   "idle"          the timer has not fired yet                           *)
(*   "fetchUnposted" await fetchUnposted(vertical, limit)                  *)
(*   "fetchChannel"  await fetchTextChannel(channelId)                     *)
(*   "fetchTriage"   await fetchTextChannel(CFG.channels.triage)           *)
(*   "send"          await ch.send(msg)                                    *)
(*   "triageSend"    await triageCh.send(...)                              *)
(*   "triageLog"     await logToBotLogs("Triage posted ...")               *)
(*   "mark"          await markPosted([id])                                *)
(*   "postLog"       await logToBotLogs("Posted ...")                      *)
(*   "crashLog"      await logToBotLogs("Publisher crash ...")             *)
(*   "callCoal"      await publishVerticalOnce("ree") in runPublisherOnce  *)
(*   "done"          runPublisherOnce has returned                         *)
(* The other fields are the locals of the cycle in progress, and a record  *)
(* of what the cycle has done so far: sent, escalated (items whose         *)
(* ch.send / triageCh.send completed), markCalled, marked (items for which *)
(* markPosted was called / resolved) and failed (items whose ch.send or    *)
(* triageCh.send was rejected).                                            *)
(***************************************************************************)
\* process.env.COCKPIT_PUBLISH_LIMIT is left unset in the model
PublishLimitEnv == Undef

publishLimit == clampInt(OrElse(PublishLimitEnv, IntRaw(5)), 5, 1, 10)

TRIAGE_SCORE == clampInt(triageEnv, 85, 1, 100)

RECURSIVE SetToSeq(_)
SetToSeq(S) ==
  IF S = {} THEN <<>>
  ELSE LET m == CHOOSE x \in S : \A y \in S : x <= y
       IN <<m>> \o SetToSeq(S \ {m})

\* the answers the unposted query can give for vertical v: up to `limit` items
\* of v that are not marked posted, each once, in the backend's order
Unposted(v) == {i \in Items : Pool[i].vertical = v /\ i \notin posted}

Batches(v, limit) ==
  {SetToSeq(S) : S \in {T \in SUBSET Unposted(v) : Cardinality(T) <= limit}}

\* const id = Number(item?.id); if (!Number.isFinite(id) || id <= 0) continue;
ValidId(i) ==
  LET id == ToNumber(Pool[i].id)
  IN IsFinite(id) /\ NumGT(id, 0)

\* the index of the first item at or after k that the loop does not skip
RECURSIVE NextValid(_, _)
NextValid(items, k) ==
  IF k > Len(items) THEN k
  ELSE IF ValidId(items[k]) THEN k
  ELSE NextValid(items, k + 1)

\* const score = Number(item?.relevance_score ?? 0)
ItemScore(i) == ToNumber(Coalesce(Pool[i].relevance_score, IntRaw(0)))

\* the comparison written with > instead of >=
EscalatesStrict(triageCh, score, threshold) ==
  triageCh /\ IsFinite(score) /\ NumGT(score, threshold)

\* triageCh && Number.isFinite(score) && score >= TRIAGE_SCORE
Escalates(triageCh, score, threshold) ==
  triageCh /\ IsFinite(score) /\ NumGE(score, threshold)

\* the guard left out
LockNeverHeld(v) == FALSE

\* if (publishLocks[vertical]) return;
LockHeld(v) == publishLocks[v]

\* finally { publishLocks[vertical] = false; }
Released(v) == [publishLocks EXCEPT ![v] = FALSE]

\* where runPublisherOnce continues when publishVerticalOnce(v) has returned
AfterVertical(v) == IF v = "ree" THEN "callCoal" ELSE "done"

\* label of publishVerticalOnce
LabelOf(v) ==
  IF v = "ree" THEN [text |-> "REE", len |-> 3] ELSE [text |-> "Coal", len |-> 4]

NoText == [brief |-> NotRendered, link |-> 0]

\* const msg = buildBriefMessage(item, label) + `\n<${item.url}>`: the
\* message rendered and the length of the line appended to it
PostedText(i, v) ==
  [brief |-> buildBriefMessage(Pool[i], LabelOf(v)),
   link |-> 3 + TemplateLen(Pool[i].url)]

\* msg.length
PostedLength(text) == MsgLength(text.brief) + text.link

NoCycle(label) ==
  [pc |-> label, v |-> "none", items |-> <<>>, k |-> 0, triage |-> FALSE,
   msg |-> NoText, sent |-> {}, escalated |-> {}, markCalled |-> {},
   marked |-> {}, failed |-> {}]

CurItem(p) == run[p].items[run[p].k]

\* the invocation leaves publishVerticalOnce through the finally block
Leave(p) ==
  /\ publishLocks' = Released(run[p].v)
  /\ run' = [run EXCEPT ![p] = NoCycle(AfterVertical(run[p].v))]

\* the loop moves on to index k: the next item is sent, or the loop ends
Advance(p, k, triage) ==
  LET j == NextValid(run[p].items, k)
  IN IF j > Len(run[p].items)
     THEN Leave(p)
     ELSE /\ run' = [run EXCEPT ![p].pc = "send", ![p].k = j,
                                ![p].triage = triage,
                                ![p].msg = PostedText(run[p].items[j], run[p].v)]
          /\ UNCHANGED publishLocks

PubInit ==
  /\ publishLocks = [v \in Verticals |-> FALSE]
  /\ run = [p \in Runs |-> NoCycle("idle")]
  /\ posted = {}
  /\ briefChannel \in [Verticals -> BOOLEAN]
  /\ triageEnv \in {Undef, StrNum(84)}
  /\ sends = [i \in Items |-> 0]
  /\ redo = [i \in Items |-> 0]
  /\ crashLogs = {}

\* the vertical an invocation at a call point is about to publish
CallVertical(p) == IF run[p].pc = "idle" THEN "ree" ELSE "coal"

\* invocation p is about to call publishVerticalOnce; the invocations are
\* numbered in the order their timers fire
AtCall(p) ==
  \/ run[p].pc = "callCoal"
  \/ run[p].pc = "idle" /\ \A q \in Runs : q < p => run[q].pc # "idle"

\* publishVerticalOnce(v) while the lock of v is held: returns at once
EnterLocked(p) ==
  /\ AtCall(p)
  /\ LockHeld(CallVertical(p))
  /\ run' = [run EXCEPT ![p] = NoCycle(AfterVertical(CallVertical(p)))]
  /\ UNCHANGED <<publishLocks, posted, briefChannel, triageEnv, sends, redo,
               crashLogs>>
  /\ UNCHANGED notPubVars

\* publishVerticalOnce(v), no output channel configured: the lock is taken and
\* released before the first suspension point
EnterUnconfigured(p) ==
  /\ AtCall(p)
  /\ ~LockHeld(CallVertical(p))
  /\ ~briefChannel[CallVertical(p)]
  /\ publishLocks' = Released(CallVertical(p))
  /\ run' = [run EXCEPT ![p] = NoCycle(AfterVertical(CallVertical(p)))]
  /\ UNCHANGED <<posted, briefChannel, triageEnv, sends, redo,
               crashLogs>>
  /\ UNCHANGED notPubVars

\* the lock not yet taken when fetchUnposted is awaited
EnterFetchLockLate(p) ==
  /\ AtCall(p)
  /\ ~LockHeld(CallVertical(p))
  /\ briefChannel[CallVertical(p)]
  /\ run' = [run EXCEPT ![p].pc = "fetchUnposted", ![p].v = CallVertical(p)]
  /\ UNCHANGED <<publishLocks, posted, briefChannel, triageEnv, sends, redo,
               crashLogs>>
  /\ UNCHANGED notPubVars

\* publishVerticalOnce(v): takes the lock and awaits fetchUnposted
EnterFetch(p) ==
  /\ AtCall(p)
  /\ ~LockHeld(CallVertical(p))
  /\ briefChannel[CallVertical(p)]
  /\ publishLocks' = [publishLocks EXCEPT ![CallVertical(p)] = TRUE]
  /\ run' = [run EXCEPT ![p].pc = "fetchUnposted", ![p].v = CallVertical(p)]
  /\ UNCHANGED <<posted, briefChannel, triageEnv, sends, redo,
               crashLogs>>
  /\ UNCHANGED notPubVars

\* fetchUnposted resolves with a batch; if (!items.length) return;
FetchUnpostedOk(p) ==
  /\ run[p].pc = "fetchUnposted"
  /\ \E b \in Batches(run[p].v, publishLimit) :
       IF Len(b) = 0
       THEN Leave(p)
       ELSE /\ run' = [run EXCEPT ![p].pc = "fetchChannel", ![p].items = b]
            /\ UNCHANGED publishLocks
  /\ UNCHANGED <<posted, briefChannel, triageEnv, sends, redo,
               crashLogs>>
  /\ UNCHANGED notPubVars

\* an awaited call is rejected inside the try block: catch, then logToBotLogs
Crash(p) == run' = [run EXCEPT ![p].pc = "crashLog"]

\* fetchUnposted is rejected (non-2xx, non-JSON, network)
FetchUnpostedFail(p) ==
  /\ run[p].pc = "fetchUnposted"
  /\ Crash(p)
  /\ UNCHANGED <<publishLocks, posted, briefChannel, triageEnv, sends, redo,
               crashLogs>>
  /\ UNCHANGED notPubVars

\* fetchTextChannel(channelId) resolves with a text channel
FetchChannelOk(p) ==
  /\ run[p].pc = "fetchChannel"
  /\ run' = [run EXCEPT ![p].pc = "fetchTriage"]
  /\ UNCHANGED <<publishLocks, posted, briefChannel, triageEnv, sends, redo,
               crashLogs>>
  /\ UNCHANGED notPubVars

\* fetchTextChannel(channelId) resolves with null (throw) or is rejected
FetchChannelFail(p) ==
  /\ run[p].pc = "fetchChannel"
  /\ Crash(p)
  /\ UNCHANGED <<publishLocks, posted, briefChannel, triageEnv, sends, redo,
               crashLogs>>
  /\ UNCHANGED notPubVars

\* fetchTextChannel(CFG.channels.triage) resolves, with a channel or with null
FetchTriageOk(p) ==
  /\ run[p].pc = "fetchTriage"
  /\ \E triageCh \in BOOLEAN : Advance(p, 1, triageCh)
  /\ UNCHANGED <<posted, briefChannel, triageEnv, sends, redo,
               crashLogs>>
  /\ UNCHANGED notPubVars

FetchTriageFail(p) ==
  /\ run[p].pc = "fetchTriage"
  /\ Crash(p)
  /\ UNCHANGED <<publishLocks, posted, briefChannel, triageEnv, sends, redo,
               crashLogs>>
  /\ UNCHANGED notPubVars

\* the invocation as it is once markPosted([id]) has been called for the
\* current item of r
CallMark(r) ==
  [r EXCEPT !.pc = "mark", !.markCalled = @ \cup {r.items[r.k]}]

\* the rejection swallowed: the loop body carries on to markPosted
SendRejectedIgnored(r) ==
  CallMark([r EXCEPT !.failed = @ \cup {r.items[r.k]}])

\* the invocation as it is once a ch.send or triageCh.send of the current item
\* of r has been rejected: the exception leaves the loop
SendRejected(r) ==
  [r EXCEPT !.pc = "crashLog", !.failed = @ \cup {r.items[r.k]}]

\* ch.send(msg) completes: the triage send or markPosted comes next
SendOk(p) ==
  /\ run[p].pc = "send"
  /\ sends' = [sends EXCEPT ![CurItem(p)] = @ + 1]
  /\ LET r == [run[p] EXCEPT !.sent = @ \cup {CurItem(p)}]
     IN run' = [run EXCEPT ![p] =
                  IF Escalates(r.triage, ItemScore(CurItem(p)), TRIAGE_SCORE)
                  THEN [r EXCEPT !.pc = "triageSend"]
                  ELSE CallMark(r)]
  /\ UNCHANGED <<publishLocks, posted, briefChannel, triageEnv, redo,
               crashLogs>>
  /\ UNCHANGED notPubVars

\* ch.send(msg) is rejected
SendFail(p) ==
  /\ run[p].pc = "send"
  /\ run' = [run EXCEPT ![p] = SendRejected(run[p])]
  /\ UNCHANGED <<publishLocks, posted, briefChannel, triageEnv, sends, redo,
               crashLogs>>
  /\ UNCHANGED notPubVars

\* triageCh.send completes: the escalation is logged
TriageSendOk(p) ==
  /\ run[p].pc = "triageSend"
  /\ run' = [run EXCEPT ![p].pc = "triageLog",
                        ![p].escalated = @ \cup {CurItem(p)}]
  /\ UNCHANGED <<publishLocks, posted, briefChannel, triageEnv, sends, redo,
               crashLogs>>
  /\ UNCHANGED notPubVars

\* triageCh.send is rejected
TriageSendFail(p) ==
  /\ run[p].pc = "triageSend"
  /\ run' = [run EXCEPT ![p] = SendRejected(run[p])]
  /\ redo' = [redo EXCEPT ![CurItem(p)] = @ + 1]
  /\ UNCHANGED <<publishLocks, posted, briefChannel, triageEnv, sends, crashLogs>>
  /\ UNCHANGED notPubVars

\* logToBotLogs("Triage posted ...") has returned (it never throws): markPosted
TriageLogged(p) ==
  /\ run[p].pc = "triageLog"
  /\ \E outcome \in LogOutcomes :
       IF logToBotLogs(outcome) = "returned"
       THEN run' = [run EXCEPT ![p] = CallMark(run[p])]
       ELSE Crash(p)
  /\ UNCHANGED <<publishLocks, posted, briefChannel, triageEnv, sends, redo,
               crashLogs>>
  /\ UNCHANGED notPubVars

\* markPosted resolves: the backend has marked the item; the publish is logged
MarkOk(p) ==
  /\ run[p].pc = "mark"
  /\ posted' = posted \cup {CurItem(p)}
  /\ run' = [run EXCEPT ![p].pc = "postLog", ![p].marked = @ \cup {CurItem(p)}]
  /\ UNCHANGED <<publishLocks, briefChannel, triageEnv, sends, redo,
               crashLogs>>
  /\ UNCHANGED notPubVars

\* the rejection of markPosted swallowed: the loop goes on to the next item
MarkFailIgnored(p) ==
  /\ run[p].pc = "mark"
  /\ Advance(p, run[p].k + 1, run[p].triage)
  /\ redo' = [redo EXCEPT ![CurItem(p)] = @ + 1]
  /\ UNCHANGED <<posted, briefChannel, triageEnv, sends, crashLogs>>
  /\ UNCHANGED notPubVars

\* markPosted is rejected
MarkFail(p) ==
  /\ run[p].pc = "mark"
  /\ Crash(p)
  /\ redo' = [redo EXCEPT ![CurItem(p)] = @ + 1]
  /\ UNCHANGED <<publishLocks, posted, briefChannel, triageEnv, sends, crashLogs>>
  /\ UNCHANGED notPubVars

\* logToBotLogs("Posted ...") has returned: next item, or the end of the loop
PostLogged(p) ==
  /\ run[p].pc = "postLog"
  /\ \E outcome \in LogOutcomes :
       IF logToBotLogs(outcome) = "returned"
       THEN Advance(p, run[p].k + 1, run[p].triage)
       ELSE Crash(p) /\ UNCHANGED publishLocks
  /\ UNCHANGED <<posted, briefChannel, triageEnv, sends, redo,
               crashLogs>>
  /\ UNCHANGED notPubVars

\* the lock released at the end of the try block instead of in a finally
CrashLoggedNoFinally(p) ==
  /\ run[p].pc = "crashLog"
  /\ run' = [run EXCEPT ![p] = NoCycle(AfterVertical(run[p].v))]
  /\ UNCHANGED <<publishLocks, posted, briefChannel, triageEnv, sends, redo,
               crashLogs>>
  /\ UNCHANGED notPubVars

\* the invocation leaves publishVerticalOnce through the finally block with
\* an error that runPublisherOnce does not catch
LeaveRaised(p) ==
  /\ publishLocks' = Released(run[p].v)
  /\ run' = [run EXCEPT ![p] = NoCycle("raised")]

\* the catch block logging the crash and throwing the error again
CrashLoggedRethrown(p) ==
  /\ run[p].pc = "crashLog"
  /\ crashLogs' = crashLogs \cup {<<p, run[p].v>>}
  /\ LeaveRaised(p)
  /\ UNCHANGED <<posted, briefChannel, triageEnv, sends, redo>>
  /\ UNCHANGED notPubVars

\* catch: logToBotLogs("Publisher crash (v) ...") has returned; then finally
CrashLogged(p) ==
  /\ run[p].pc = "crashLog"
  /\ crashLogs' = crashLogs \cup {<<p, run[p].v>>}
  /\ \E outcome \in LogOutcomes :
       IF logToBotLogs(outcome) = "returned" THEN Leave(p) ELSE LeaveRaised(p)
  /\ UNCHANGED <<posted, briefChannel, triageEnv, sends, redo>>
  /\ UNCHANGED notPubVars

PubNext ==
  \E p \in Runs :
    \/ EnterLocked(p)
    \/ EnterUnconfigured(p)
    \/ EnterFetch(p)
    \/ FetchUnpostedOk(p)
    \/ FetchUnpostedFail(p)
    \/ FetchChannelOk(p)
    \/ FetchChannelFail(p)
    \/ FetchTriageOk(p)
    \/ FetchTriageFail(p)
    \/ SendOk(p)
    \/ SendFail(p)
    \/ TriageSendOk(p)
    \/ TriageSendFail(p)
    \/ TriageLogged(p)
    \/ MarkOk(p)
    \/ MarkFail(p)
    \/ PostLogged(p)
    \/ CrashLogged(p)

(***************************************************************************)
(* Feed entries as the XML parser returns them.  A value is undefined (U), *)
(* a string S(s), an element object (Node: its "#text", "@_href", "href"   *)
(* and "@_rel" properties, U when absent) or an array Arr(elems).          *)
(* Strings are taken from a small set; trim, the angle-bracket strip and   *)
(* slice(0, 500) are given by what they do to the strings of that set.     *)
(***************************************************************************)
U == [t |-> "undef"]
S(s) == [t |-> "str", s |-> s]
Node(text, attrHref, href, rel) ==
  [t |-> "obj", text |-> text, attrHref |-> attrHref, href |-> href, rel |-> rel]
Arr(elems) == [t |-> "arr", elems |-> elems]

\* a string of 600 characters and its first 500
LongKey == "k(600)"
LongKey500 == "k(500)"

\* v?.[name]
Prop(v, name) == IF v.t = "obj" THEN v[name] ELSE U

\* a ?? b on feed values
Nvl(a, b) == IF a.t = "undef" THEN b ELSE a

Truthy(v) == v.t \in {"obj", "arr"} \/ (v.t = "str" /\ v.s # "")

\* a || b on feed values
Or(a, b) == IF Truthy(a) THEN a ELSE b

\* String(v)
ToStr(v) ==
  CASE v.t = "str" -> v.s
    [] v.t = "obj" -> "[object Object]"
    [] v.t = "arr" -> IF Len(v.elems) = 0 THEN "" ELSE "[object Object]"
    [] OTHER -> "undefined"

\* s.trim()
Trim(s) ==
  CASE s = " " -> ""
    [] s = " u3 " -> "u3"
    [] OTHER -> s

\* x.replace(/^<|>$/g, "")
StripAngles(s) == IF s = "<u2>" THEN "u2" ELSE s

\* s.slice(0, 500)
Slice500(s) == IF s = LongKey THEN LongKey500 ELSE s

\* normLink(s)
normLink(v) ==
  LET x == Trim(ToStr(Or(v, S(""))))
  IN IF x = "" THEN "" ELSE StripAngles(x)

\* getItemKey(item)
getItemKey(item) ==
  LET guid == Nvl(Prop(item.guid, "text"), item.guid)
      id == item.id
      link == IF item.link.t = "str" THEN item.link
              ELSE Nvl(Prop(item.link, "attrHref"), Nvl(Prop(item.link, "href"), S("")))
      title == Nvl(Prop(item.title, "text"), Nvl(item.title, S("")))
      key == Trim(ToStr(Or(guid, Or(id, Or(link, title)))))
  IN IF key # "" THEN Slice500(key) ELSE ""

\* l.find((x) => x?.["@_rel"] === "alternate") || l[0]
RECURSIVE FindAlternate(_, _)
FindAlternate(l, k) ==
  IF k > Len(l) THEN U
  ELSE IF Prop(l[k], "rel") = S("alternate") THEN l[k]
  ELSE FindAlternate(l, k + 1)

\* getItemLink(item)
getItemLink(item) ==
  LET l == item.link
  IN IF l.t = "str" THEN normLink(l)
     ELSE IF l.t = "arr"
     THEN LET first == IF Len(l.elems) = 0 THEN U ELSE l.elems[1]
              alt == Or(FindAlternate(l.elems, 1), first)
          IN normLink(Or(Prop(alt, "attrHref"), Or(Prop(alt, "href"), S(""))))
     ELSE normLink(Or(Prop(l, "attrHref"), Or(Prop(l, "href"), S(""))))

\* the entries feeds are made of in the model
FeedPool ==
  << \* RSS item with guid and link
     [guid |-> S("g1"), id |-> U, link |-> S("u1"), title |-> S("t1")],
     \* guid with attributes, link wrapped in angle brackets
     [guid |-> Node(S("g2"), U, U, U), id |-> U, link |-> S("<u2>"), title |-> U],
     \* Atom entry: id, a list of links with an alternate
     [guid |-> U, id |-> S("a3"),
      link |-> Arr(<<Node(U, S("s3"), U, S("self")),
                     Node(U, S(" u3 "), U, S("alternate"))>>),
      title |-> Node(S("t3"), U, U, U)],
     \* no guid, no id: the key is the link
     [guid |-> U, id |-> U, link |-> S("u1"), title |-> S("t4")],
     \* title only: a key, no link
     [guid |-> U, id |-> U, link |-> U, title |-> S("t5")],
     \* blank guid: no key
     [guid |-> S(" "), id |-> S("a6"), link |-> S("u6"), title |-> S("t6")],
     \* the guid of the first entry, blank link
     [guid |-> S("g1"), id |-> U, link |-> S(" "), title |-> U],
     \* a guid longer than 500 characters, Atom link element
     [guid |-> S(LongKey), id |-> U, link |-> Node(U, S("u8"), U, U), title |-> U] >>

(***************************************************************************)
(* pollOneFeed.                                                            *)
(*                                                                         *)
(* The feed-poll cycle polls one source at a time, so one record holds the *)
(* poll in progress.  poll.pc is the await it is suspended at:             *)
(*   "idle"      no poll has started                                       *)
(*   "sleep"     await sleep(secDelayMs)                                   *)
(*   "fetch"     await fetch(src.url, ...)                                 *)
(*   "report304" await cockpitPost(report) of the 304 branch               *)
(*   "text"      await res.text()                                          *)
(*   "seen"      await fetchSeenKeys(src.id, keys)                         *)
(*   "ingest"    await ingestRssItem(...) for items[i]                     *)
(*   "report"    await cockpitPost(report) after the loop                  *)
(*   "errReport" await cockpitPost(report) in the catch block              *)
(*   "returned"  pollOneFeed has returned `result`                         *)
(*   "raised"    pollOneFeed has thrown                                    *)
(* A validator is a string; "" stands for null (src.etag || null).         *)
(* poll.src holds the validators of the source as they were passed in,     *)
(* poll.sourceType the type the ingestion calls are tagged with.           *)
(***************************************************************************)
\* longest feed document of the model
MaxDocLen == 2

maxItems == clampInt(OrElse(rssMaxEnv, IntRaw(10)), 10, 1, 50)

secDelayMs == clampInt(OrElse(secDelayEnv, IntRaw(1200)), 1200, 0, 10000)

\* urlStr.replace(/^https?:\/\//i, "").split("/")[0].toLowerCase()
Domain(url) ==
  CASE url = "https://www.sec.gov/rss" -> "www.sec.gov"
    [] url = "HTTPS://SEC.GOV/feed" -> "sec.gov"
    [] url = "https://example.com/sec.gov/feed" -> "example.com"
    [] OTHER -> ""

isSec(url) == Domain(url) = "www.sec.gov" \/ Domain(url) = "sec.gov"

Urls == {"https://www.sec.gov/rss", "HTTPS://SEC.GOV/feed",
         "https://example.com/sec.gov/feed"}

\* the feed sources of the model: url and the validators stored for it
Sources == [url : Urls, etag : {"", "e0"}, last_modified : {"", "m0"}]

\* a || b on validators
OrStr(a, b) == IF a # "" THEN a ELSE b

\* res.ok
ResOk(status) == status >= 200 /\ status <= 299

Statuses == {200, 304, 404}

RECURSIVE SeqsUpTo(_, _)
SeqsUpTo(S0, n) ==
  IF n = 0 THEN {<<>>}
  ELSE LET shorter == SeqsUpTo(S0, n - 1)
       IN shorter \cup {Append(q, x) : q \in shorter, x \in S0}

\* what rssParser.parse(xml) can return: rss.channel.item or feed.entry, absent
\* (U), one entry or an array of entries
ParsedDocs ==
  LET entries == {Arr(q) : q \in SeqsUpTo(1..Len(FeedPool), MaxDocLen)}
                   \cup {[t |-> "one", e |-> x] : x \in 1..Len(FeedPool)}
  IN {[rssItem |-> x, feedEntry |-> U] : x \in entries \cup {U}}
       \cup {[rssItem |-> U, feedEntry |-> x] : x \in entries}

\* Array.isArray(x) ? x : [x]
AsList(x) == IF x.t = "arr" THEN x.elems ELSE <<x.e>>

\* pickRssItems(parsed); an entry is named by its index in FeedPool
pickRssItems(parsed) ==
  IF parsed.rssItem.t # "undef" THEN AsList(parsed.rssItem)
  ELSE IF parsed.feedEntry.t # "undef" THEN AsList(parsed.feedEntry)
  ELSE <<>>

\* q.slice(0, n)
Take(q, n) == SubSeq(q, 1, Min2(n, Len(q)))

KeyOf(e) == getItemKey(FeedPool[e])
LinkOf(e) == getItemLink(FeedPool[e])

\* items.map(getItemKey).filter(Boolean), as a set
CandidateKeys(items) == {KeyOf(items[n]) : n \in 1..Len(items)} \ {""}

\* the link left out of the test
UsableKeyOnly(key, link) == key # ""

\* if (!key || !link) continue;   (negated)
Usable(key, link) == key # "" /\ link # ""

\* the seen-key filter left out
IsSeenNever(seenSet, key) == FALSE

\* seenSet.has(key)
IsSeen(seenSet, key) == key \in seenSet

\* the 304 branch left out
NotModifiedNever(status) == FALSE

\* if (res.status === 304)
NotModified(status) == status = 304

\* what a call of pollOneFeed ended with: the counts it returned, or the error
\* it threw ("cause": the error caught at line 522, "report": the rejection of
\* the error report posted in the catch block)
NoResult ==
  [kind |-> "none", fetched |-> 0, ingested |-> 0, skipped |-> 0, error |-> ""]

IdlePoll ==
  [pc |-> "idle", src |-> [etag |-> "", last_modified |-> ""],
   sourceType |-> "rss", etag |-> "", lastModified |-> "", status |-> 0, respEtag |-> "",
   respLastModified |-> "", items |-> <<>>, i |-> 0, seenSet |-> {},
   newlySeen |-> <<>>, ingested |-> 0, skipped |-> 0]

\* the body of a poll report
Report(pl, lastError, seenKeys) ==
  [etag |-> pl.etag, last_modified |-> pl.lastModified,
   last_error |-> lastError, seen_keys |-> seenKeys]

FeedInit ==
  /\ poll = IdlePoll
  /\ reports = <<>>
  /\ forwarded = <<>>
  /\ seenCalls = 0
  /\ result = NoResult
  /\ rssMaxEnv \in {Undef, StrNum(1)}
  /\ secDelayEnv \in {Undef, StrNum(0)}

\* the catch block throwing the error again without posting a report
CatchRethrown(pl) ==
  /\ poll' = [pl EXCEPT !.pc = "errReport"]
  /\ UNCHANGED reports

\* catch (e): the error report is posted with the locals as they are in pl
Catch(pl) ==
  /\ poll' = [pl EXCEPT !.pc = "errReport"]
  /\ reports' = Append(reports, Report(pl, "error", <<>>))

\* the for loop from index k on, up to its next await: the items it skips and
\* the ones it counts as seen, then ingestRssItem or the end of the loop
RECURSIVE LoopTo(_, _)
LoopTo(pl, k) ==
  IF k > Len(pl.items) THEN [pl EXCEPT !.pc = "report", !.i = k]
  ELSE IF ~Usable(KeyOf(pl.items[k]), LinkOf(pl.items[k])) THEN LoopTo(pl, k + 1)
  ELSE IF IsSeen(pl.seenSet, KeyOf(pl.items[k]))
       THEN LoopTo([pl EXCEPT !.skipped = @ + 1], k + 1)
  ELSE [pl EXCEPT !.pc = "ingest", !.i = k]

\* the poll runs the loop from index k: it ends up awaiting ingestRssItem, or
\* awaiting the report posted after the loop
RunLoop(pl, k) ==
  LET r == LoopTo(pl, k)
  IN /\ poll' = r
     /\ IF r.pc = "ingest"
        THEN /\ forwarded' = Append(forwarded, r.i)
             /\ UNCHANGED reports
        ELSE /\ reports' = Append(reports, Report(r, "null", r.newlySeen))
             /\ UNCHANGED forwarded

\* pollOneFeed(src) up to its first await: the politeness delay for SEC
\* sources, or the fetch.  Every call starts from fresh locals
StartPoll(src) ==
  /\ poll' = [IdlePoll EXCEPT
                !.pc = IF isSec(src.url) /\ secDelayMs > 0 THEN "sleep" ELSE "fetch",
                !.src = [etag |-> src.etag, last_modified |-> src.last_modified],
                !.sourceType = IF isSec(src.url) THEN "corporate" ELSE "rss",
                !.etag = OrStr(src.etag, ""),
                !.lastModified = OrStr(src.last_modified, "")]
  /\ reports' = <<>>
  /\ forwarded' = <<>>
  /\ seenCalls' = 0
  /\ result' = NoResult
  /\ UNCHANGED <<rssMaxEnv, secDelayEnv>>

\* pollOneFeed(src) is called on its own; one call is followed to its end
PollStart ==
  /\ poll.pc = "idle"
  /\ \E src \in Sources : StartPoll(src)
  /\ UNCHANGED notFeedVars

SleepDone ==
  /\ poll.pc = "sleep"
  /\ poll' = [poll EXCEPT !.pc = "fetch"]
  /\ UNCHANGED <<reports, forwarded, seenCalls, result, rssMaxEnv, secDelayEnv>>
  /\ UNCHANGED notFeedVars

\* fetch resolves with 304: the unchanged validators are reported
FetchNotModified ==
  /\ poll.pc = "fetch"
  /\ \E status \in Statuses :
       /\ NotModified(status)
       /\ poll' = [poll EXCEPT !.pc = "report304", !.status = status]
  /\ reports' = Append(reports, Report(poll, "null", <<>>))
  /\ UNCHANGED <<forwarded, seenCalls, result, rssMaxEnv, secDelayEnv>>
  /\ UNCHANGED notFeedVars

\* fetch resolves with another status: the body is read
FetchOk ==
  /\ poll.pc = "fetch"
  /\ \E status \in Statuses, e \in {"", "e1"}, lm \in {"", "m1"} :
       /\ ~NotModified(status)
       /\ poll' = [poll EXCEPT !.pc = "text", !.status = status,
                               !.respEtag = e, !.respLastModified = lm]
  /\ UNCHANGED <<reports, forwarded, seenCalls, result, rssMaxEnv, secDelayEnv>>
  /\ UNCHANGED notFeedVars

\* fetch is rejected (network error)
FetchFail ==
  /\ poll.pc = "fetch"
  /\ Catch(poll)
  /\ UNCHANGED <<forwarded, seenCalls, result, rssMaxEnv, secDelayEnv>>
  /\ UNCHANGED notFeedVars

\* res.text() resolves and the status is not a success: throw
TextNotOk ==
  /\ poll.pc = "text"
  /\ ~ResOk(poll.status)
  /\ Catch(poll)
  /\ UNCHANGED <<forwarded, seenCalls, result, rssMaxEnv, secDelayEnv>>
  /\ UNCHANGED notFeedVars

\* the locals once the validators of the response have been taken over
WithValidators(pl) ==
  [pl EXCEPT !.etag = OrStr(pl.respEtag, pl.etag),
             !.lastModified = OrStr(pl.respLastModified, pl.lastModified)]

\* res.text() resolves, success status, and rssParser.parse(xml) throws
TextParseError ==
  /\ poll.pc = "text"
  /\ ResOk(poll.status)
  /\ Catch(WithValidators(poll))
  /\ UNCHANGED <<forwarded, seenCalls, result, rssMaxEnv, secDelayEnv>>
  /\ UNCHANGED notFeedVars

\* res.text() resolves, success status, the document parses: the items are
\* picked and cut to maxItems; with candidate keys the seen-key query is
\* posted, without any fetchSeenKeys returns the empty set and the loop runs
TextOk ==
  /\ poll.pc = "text"
  /\ ResOk(poll.status)
  /\ \E parsed \in ParsedDocs :
       LET pl == [WithValidators(poll) EXCEPT
                    !.items = Take(pickRssItems(parsed), maxItems)]
       IN IF CandidateKeys(pl.items) # {}
          THEN /\ poll' = [pl EXCEPT !.pc = "seen"]
               /\ seenCalls' = seenCalls + 1
               /\ UNCHANGED <<reports, forwarded>>
          ELSE /\ RunLoop(pl, 1)
               /\ UNCHANGED seenCalls
  /\ UNCHANGED <<result, rssMaxEnv, secDelayEnv>>
  /\ UNCHANGED notFeedVars

\* res.text() is rejected
TextFail ==
  /\ poll.pc = "text"
  /\ Catch(poll)
  /\ UNCHANGED <<forwarded, seenCalls, result, rssMaxEnv, secDelayEnv>>
  /\ UNCHANGED notFeedVars

\* the seen-key query resolves with some of the candidate keys
SeenOk ==
  /\ poll.pc = "seen"
  /\ \E seen \in SUBSET CandidateKeys(poll.items) :
       RunLoop([poll EXCEPT !.seenSet = seen], 1)
  /\ UNCHANGED <<seenCalls, result, rssMaxEnv, secDelayEnv>>
  /\ UNCHANGED notFeedVars

\* the seen-key query is rejected
SeenFail ==
  /\ poll.pc = "seen"
  /\ Catch(poll)
  /\ UNCHANGED <<forwarded, seenCalls, result, rssMaxEnv, secDelayEnv>>
  /\ UNCHANGED notFeedVars

\* ingestRssItem resolves: the key is newly seen, the item is counted as
\* ingested (out.inserted) or skipped, and the loop goes on
IngestOk ==
  /\ poll.pc = "ingest"
  /\ \E inserted \in BOOLEAN :
       RunLoop([poll EXCEPT
                  !.newlySeen = Append(@, KeyOf(poll.items[poll.i])),
                  !.ingested = IF inserted THEN @ + 1 ELSE @,
                  !.skipped = IF inserted THEN @ ELSE @ + 1],
               poll.i + 1)
  /\ UNCHANGED <<seenCalls, result, rssMaxEnv, secDelayEnv>>
  /\ UNCHANGED notFeedVars

\* ingestRssItem is rejected: nothing in the loop catches it
IngestFail ==
  /\ poll.pc = "ingest"
  /\ Catch(poll)
  /\ UNCHANGED <<forwarded, seenCalls, result, rssMaxEnv, secDelayEnv>>
  /\ UNCHANGED notFeedVars

\* the report after the loop resolves: return { fetched, ingested, skipped }
ReportOk ==
  /\ poll.pc = "report"
  /\ poll' = [poll EXCEPT !.pc = "returned"]
  /\ result' = [NoResult EXCEPT !.kind = "returned", !.fetched = Len(poll.items),
                                !.ingested = poll.ingested,
                                !.skipped = poll.skipped]
  /\ UNCHANGED <<reports, forwarded, seenCalls, rssMaxEnv, secDelayEnv>>
  /\ UNCHANGED notFeedVars

\* the report after the loop is rejected
ReportFail ==
  /\ poll.pc = "report"
  /\ Catch(poll)
  /\ UNCHANGED <<forwarded, seenCalls, result, rssMaxEnv, secDelayEnv>>
  /\ UNCHANGED notFeedVars

\* the report of the 304 branch resolves: return zero counts
Report304Ok ==
  /\ poll.pc = "report304"
  /\ poll' = [poll EXCEPT !.pc = "returned"]
  /\ result' = [NoResult EXCEPT !.kind = "returned"]
  /\ UNCHANGED <<reports, forwarded, seenCalls, rssMaxEnv, secDelayEnv>>
  /\ UNCHANGED notFeedVars

\* the report of the 304 branch is rejected
Report304Fail ==
  /\ poll.pc = "report304"
  /\ Catch(poll)
  /\ UNCHANGED <<forwarded, seenCalls, result, rssMaxEnv, secDelayEnv>>
  /\ UNCHANGED notFeedVars

\* the error report resolves (throw e) or is rejected: pollOneFeed throws
ErrReportDone ==
  /\ poll.pc = "errReport"
  /\ poll' = [poll EXCEPT !.pc = "raised"]
  /\ \E rejected \in BOOLEAN :
       result' = [NoResult EXCEPT !.kind = "raised",
                                  !.error = IF rejected THEN "report" ELSE "cause"]
  /\ UNCHANGED <<reports, forwarded, seenCalls, rssMaxEnv, secDelayEnv>>
  /\ UNCHANGED notFeedVars

FeedNext ==
  \/ PollStart
  \/ SleepDone
  \/ FetchNotModified
  \/ FetchOk
  \/ FetchFail
  \/ TextNotOk
  \/ TextParseError
  \/ TextOk
  \/ TextFail
  \/ SeenOk
  \/ SeenFail
  \/ IngestOk
  \/ IngestFail
  \/ ReportOk
  \/ ReportFail
  \/ Report304Ok
  \/ Report304Fail
  \/ ErrReportDone

(***************************************************************************)
(* runRssOnce.                                                             *)
(*                                                                         *)
(* rss[p].pc is the await the invocation is suspended at:                  *)
(*   "idle"       the timer has not fired yet                              *)
(*   "list"       await cockpitGet("/api/sources/rss?limit=...")           *)
(*   "poll"       await pollOneFeed(sources[s])                            *)
(*   "errLog"     await logToBotLogs("RSS poll error ...")                 *)
(*   "summaryLog" await logToBotLogs("RSS inflow ...")                     *)
(*   "crashLog"   await logToBotLogs("RSS runner crash ...")               *)
(*   "done"       runRssOnce has returned                                  *)
(*   "raised"     runRssOnce has thrown                                    *)
(* listed, polled and rssLogs record the cycle in progress (or the last     *)
(* one).  The outcome of a call of pollOneFeed is "pending", "returned", or *)
(* the error it threw.  A log line is [kind, s, error]: s is the position   *)
(* in the listing of the source the line names, 0 when it names none.       *)
(***************************************************************************)
\* the sources the backend can list
RssSources ==
  {[url |-> "https://www.sec.gov/rss", etag |-> "", last_modified |-> ""],
   [url |-> "https://example.com/sec.gov/feed", etag |-> "e0",
    last_modified |-> "m0"]}

\* what out.sources can be: any of the sources, each at most once, in any
\* order
Listings ==
  {l \in SeqsUpTo(RssSources, Cardinality(RssSources)) :
     \A a, b \in 1..Len(l) : a # b => l[a] # l[b]}

NoRss(label) ==
  [pc |-> label, sources |-> <<>>, s |-> 0, totalFetched |-> 0,
   totalIngested |-> 0, totalSkipped |-> 0]

LogLine(kind, s, error) == [kind |-> kind, s |-> s, error |-> error]

RssInit ==
  /\ rssPolling = FALSE
  /\ rss = [p \in Runs |-> NoRss("idle")]
  /\ listed = <<>>
  /\ polled = <<>>
  /\ rssLogs = <<>>

\* the guard left out
RssBusyNever == FALSE

\* if (rssPolling) return;
RssBusy == rssPolling

\* the invocations are numbered in the order their timers fire
RssAtCall(p) ==
  /\ rss[p].pc = "idle"
  /\ \A q \in Runs : q < p => rss[q].pc # "idle"

\* the call of pollOneFeed has ended: its locals are gone
DropPoll ==
  /\ poll' = IdlePoll
  /\ reports' = <<>>
  /\ forwarded' = <<>>
  /\ seenCalls' = 0
  /\ result' = NoResult
  /\ UNCHANGED <<rssMaxEnv, secDelayEnv>>

\* the finally block left out: the invocation returns with the flag set
RssFinishFlagKept(p) ==
  /\ UNCHANGED rssPolling
  /\ rss' = [rss EXCEPT ![p] = NoRss("done")]

\* finally { rssPolling = false; } and the invocation returns
RssFinish(p) ==
  /\ rssPolling' = FALSE
  /\ rss' = [rss EXCEPT ![p] = NoRss("done")]

\* the outer catch: logToBotLogs("RSS runner crash ...")
RssCrash(p) ==
  /\ rss' = [rss EXCEPT ![p].pc = "crashLog"]
  /\ rssLogs' = Append(rssLogs, LogLine("crash", 0, ""))
  /\ UNCHANGED <<rssPolling, polled>>

\* the calls of pollOneFeed once the one in progress has ended with `outcome`
Ended(outcome) == [polled EXCEPT ![Len(polled)].outcome = outcome]

\* the for loop goes on after source r.s, the calls made so far being `calls`:
\* the next source is polled, or the loop ends and the summary is logged
\* when anything was ingested
RssNextSource(p, r, calls) ==
  IF r.s < Len(r.sources)
  THEN /\ rss' = [rss EXCEPT ![p] = [r EXCEPT !.pc = "poll", !.s = r.s + 1]]
       /\ StartPoll(r.sources[r.s + 1])
       /\ polled' = Append(calls, [src |-> r.sources[r.s + 1],
                                   outcome |-> "pending"])
       /\ UNCHANGED <<rssPolling, rssLogs>>
  ELSE IF r.totalIngested > 0
  THEN /\ rss' = [rss EXCEPT ![p] = [r EXCEPT !.pc = "summaryLog"]]
       /\ rssLogs' = Append(rssLogs, LogLine("inflow", 0, ""))
       /\ polled' = calls
       /\ DropPoll
       /\ UNCHANGED rssPolling
  ELSE /\ RssFinish(p)
       /\ polled' = calls
       /\ DropPoll
       /\ UNCHANGED rssLogs

\* runRssOnce while a cycle is in flight: returns at once
RssEnterLocked(p) ==
  /\ RssAtCall(p)
  /\ RssBusy
  /\ rss' = [rss EXCEPT ![p] = NoRss("done")]
  /\ UNCHANGED <<rssPolling, listed, polled, rssLogs>>
  /\ UNCHANGED feedVars
  /\ UNCHANGED notRssVars

\* runRssOnce: sets the flag and awaits the source listing
RssEnter(p) ==
  /\ RssAtCall(p)
  /\ ~RssBusy
  /\ rssPolling' = TRUE
  /\ rss' = [rss EXCEPT ![p].pc = "list"]
  /\ listed' = <<>>
  /\ polled' = <<>>
  /\ rssLogs' = <<>>
  /\ UNCHANGED feedVars
  /\ UNCHANGED notRssVars

\* the listing resolves; if (!sources.length) return; else the first source
\* is polled
RssListOk(p) ==
  /\ rss[p].pc = "list"
  /\ \E l \in Listings :
       /\ listed' = l
       /\ IF Len(l) = 0
          THEN /\ RssFinish(p)
               /\ UNCHANGED <<polled, rssLogs>>
               /\ UNCHANGED feedVars
          ELSE RssNextSource(p, [rss[p] EXCEPT !.sources = l], polled)
  /\ UNCHANGED notRssVars

\* the listing is rejected (non-2xx, non-JSON, network)
RssListFail(p) ==
  /\ rss[p].pc = "list"
  /\ RssCrash(p)
  /\ UNCHANGED listed
  /\ UNCHANGED feedVars
  /\ UNCHANGED notRssVars

\* pollOneFeed has returned its counts: they are added to the totals
RssPollReturned(p) ==
  /\ rss[p].pc = "poll"
  /\ poll.pc = "returned"
  /\ RssNextSource(p, [rss[p] EXCEPT
                         !.totalFetched = @ + result.fetched,
                         !.totalIngested = @ + result.ingested,
                         !.totalSkipped = @ + result.skipped],
                   Ended("returned"))
  /\ UNCHANGED listed
  /\ UNCHANGED notRssVars

\* the inner try/catch left out: the error reaches the outer catch
RssPollRaisedUncaught(p) ==
  /\ rss[p].pc = "poll"
  /\ poll.pc = "raised"
  /\ rss' = [rss EXCEPT ![p].pc = "crashLog"]
  /\ rssLogs' = Append(rssLogs, LogLine("crash", 0, ""))
  /\ polled' = Ended(result.error)
  /\ DropPoll
  /\ UNCHANGED <<rssPolling, listed>>
  /\ UNCHANGED notRssVars

\* pollOneFeed has thrown: the inner catch logs the error for the source
RssPollRaised(p) ==
  /\ rss[p].pc = "poll"
  /\ poll.pc = "raised"
  /\ rss' = [rss EXCEPT ![p].pc = "errLog"]
  /\ rssLogs' = Append(rssLogs, LogLine("pollError", rss[p].s, result.error))
  /\ polled' = Ended(result.error)
  /\ DropPoll
  /\ UNCHANGED <<rssPolling, listed>>
  /\ UNCHANGED notRssVars

\* logToBotLogs("RSS poll error ...") has ended: the loop goes on
RssErrLogged(p) ==
  /\ rss[p].pc = "errLog"
  /\ \E outcome \in LogOutcomes :
       IF logToBotLogs(outcome) = "returned"
       THEN RssNextSource(p, rss[p], polled)
       ELSE RssCrash(p) /\ UNCHANGED feedVars
  /\ UNCHANGED listed
  /\ UNCHANGED notRssVars

\* logToBotLogs("RSS inflow ...") has ended
RssSummaryLogged(p) ==
  /\ rss[p].pc = "summaryLog"
  /\ \E outcome \in LogOutcomes :
       IF logToBotLogs(outcome) = "returned"
       THEN RssFinish(p) /\ UNCHANGED <<polled, rssLogs>>
       ELSE RssCrash(p)
  /\ UNCHANGED listed
  /\ UNCHANGED feedVars
  /\ UNCHANGED notRssVars

\* logToBotLogs("RSS runner crash ...") has ended; then the finally block
RssCrashLogged(p) ==
  /\ rss[p].pc = "crashLog"
  /\ \E outcome \in LogOutcomes :
       IF logToBotLogs(outcome) = "returned"
       THEN RssFinish(p)
       ELSE /\ rssPolling' = FALSE
            /\ rss' = [rss EXCEPT ![p] = NoRss("raised")]
  /\ UNCHANGED <<listed, polled, rssLogs>>
  /\ UNCHANGED feedVars
  /\ UNCHANGED notRssVars

(***************************************************************************)
(* The message handler: extractUrls, ingestOne, client.on("messageCreate"). *)
(*                                                                         *)
(* The content of a message is a sequence of words taken from Words.       *)
(* msg.pc is the await the handler is suspended at:                        *)
(*   "idle"        the message has not been delivered yet                  *)
(*   "ingestFetch" ingestOne: await fetch(".../api/ingest")                *)
(*   "ingestText"  ingestOne: await res.text().catch(...), status not ok   *)
(*   "ingestJson"  ingestOne: res.json().catch(...)                        *)
(*   "react"       await message.react(msg.emoji)                          *)
(*   "statusLog"   await logToBotLogs(the status line)                     *)
(*   "crashLog"    await logToBotLogs("Handler crash ...")                 *)
(*   "done"        the handler has returned                                *)
(*   "raised"      the handler has thrown                                  *)
(***************************************************************************)
\* longest message of the model, in words
MaxWords == 3

Words ==
  {"hi", "https://a", "<https://a>", "http://b", "(http://b),",
   "HTTPS://C", "https://c?x=1"}

\* the matches of /https?:\/\/[^\s<>()]+/g in one word; the pattern is
\* case-sensitive and stops at <, >, ( and )
WordMatches(w) ==
  CASE w = "https://a" -> <<"https://a">>
    [] w = "<https://a>" -> <<"https://a">>
    [] w = "http://b" -> <<"http://b">>
    [] w = "(http://b)," -> <<"http://b">>
    [] w = "https://c?x=1" -> <<"https://c?x=1">>
    [] OTHER -> <<>>

\* text.match(...): the matches of all the words, in order
RECURSIVE Matches(_)
Matches(content) ==
  IF content = <<>> THEN <<>>
  ELSE WordMatches(Head(content)) \o Matches(Tail(content))

\* [...new Set(q)]: the first occurrence of every element, in order
RECURSIVE Distinct(_)
Distinct(q) ==
  IF q = <<>> THEN <<>>
  ELSE LET front == Distinct(SubSeq(q, 1, Len(q) - 1))
           last == q[Len(q)]
       IN IF \E n \in 1..Len(front) : front[n] = last
          THEN front ELSE Append(front, last)

\* extractUrls(text)
extractUrls(content) ==
  IF content = <<>> THEN <<>>
  ELSE IF Matches(content) = <<>> THEN <<>>
  ELSE Distinct(Matches(content))

Channels == {"reeRaw", "policyRaw", "other"}

\* intakeMap.get(message.channelId): the vertical, "none" when undefined
intakeMap(channel) ==
  CASE channel = "reeRaw" -> "ree"
    [] channel = "coalRaw" -> "coal"
    [] channel = "policyRaw" -> "policy"
    [] OTHER -> "none"

Contents == SeqsUpTo(Words, MaxWords)

IdleMsg(bot, channel, content) ==
  [pc |-> "idle", bot |-> bot, channel |-> channel, content |-> content,
   urls |-> <<>>, i |-> 0, status |-> 0, insertedCount |-> 0,
   dedupedCount |-> 0, errs |-> <<>>, emoji |-> ""]

MsgInit ==
  /\ \E bot \in BOOLEAN, channel \in Channels, content \in Contents :
       msg = IdleMsg(bot, channel, content)
  /\ submitted = <<>>
  /\ reactions = <<>>
  /\ msgLogs = <<>>

\* no message is delivered
NoMessage ==
  /\ msg = [IdleMsg(TRUE, "other", <<>>) EXCEPT !.pc = "done"]
  /\ submitted = <<>>
  /\ reactions = <<>>
  /\ msgLogs = <<>>

StatusLine(kind, m) ==
  [kind |-> kind, inserted |-> m.insertedCount, deduped |-> m.dedupedCount,
   errs |-> m.errs]

\* the outer catch: logToBotLogs("Handler crash ...")
MsgCrash(m) ==
  /\ msg' = [m EXCEPT !.pc = "crashLog"]
  /\ msgLogs' = Append(msgLogs, StatusLine("crash", m))

\* the status line is passed to logToBotLogs
MsgStatus(m) ==
  /\ msg' = [m EXCEPT !.pc = "statusLog"]
  /\ msgLogs' = Append(msgLogs,
                       StatusLine(IF m.errs = <<>> THEN "ingest" ELSE "errors", m))

\* the warning left out of the choice: the success reactions whatever failed
AfterLoopSuccessOnly(m) ==
  IF m.insertedCount > 0 THEN "inserted"
  ELSE IF m.dedupedCount > 0 THEN "deduped"
  ELSE "warning"

\* the first reaction after the loop: lines 623-631
AfterLoop(m) ==
  IF m.errs = <<>>
  THEN IF m.insertedCount > 0 THEN "inserted"
       ELSE IF m.dedupedCount > 0 THEN "deduped"
       ELSE "none"
  ELSE "warning"

\* the loop stopped at the first failure
MsgLoopStops(m) == m.errs # <<>> \/ m.i >= Len(m.urls)

\* for (const url of urls): the loop ends after the last url
MsgLoopEnds(m) == m.i >= Len(m.urls)

\* the calls of ingestOne once the one in progress has ended with `outcome`:
\* "inserted", "deduped" (out.inserted is not set) or "failed" (it threw)
Settled(outcome) == [submitted EXCEPT ![Len(submitted)].outcome = outcome]

\* the handler goes on after the submission of urls[i], the calls made so far
\* being `calls`: the next url is submitted, or the loop is over and the
\* outcome is acknowledged
MsgNextUrl(m, calls) ==
  IF ~MsgLoopEnds(m)
  THEN /\ msg' = [m EXCEPT !.pc = "ingestFetch", !.i = m.i + 1]
       /\ submitted' = Append(calls, [url |-> m.urls[m.i + 1],
                                      outcome |-> "pending"])
       /\ UNCHANGED <<reactions, msgLogs>>
  ELSE /\ IF AfterLoop(m) = "none"
          THEN MsgStatus(m)
          ELSE /\ msg' = [m EXCEPT !.pc = "react", !.emoji = AfterLoop(m)]
               /\ UNCHANGED msgLogs
       /\ submitted' = calls
       /\ UNCHANGED reactions

\* catch (e) { errs.push({ url, err }) }
WithErr(m, err) == [m EXCEPT !.errs = Append(@, [url |-> m.urls[m.i], err |-> err])]

\* the message is from a bot, from a channel that is no intake channel, or
\* holds no url: the handler returns
MsgIgnored ==
  /\ msg.pc = "idle"
  /\ msg.bot \/ intakeMap(msg.channel) = "none" \/ extractUrls(msg.content) = <<>>
  /\ msg' = [msg EXCEPT !.pc = "done"]
  /\ UNCHANGED <<submitted, reactions, msgLogs>>
  /\ UNCHANGED notMsgVars

\* the message is handled: the first url is submitted
MsgHandled ==
  /\ msg.pc = "idle"
  /\ ~msg.bot
  /\ intakeMap(msg.channel) # "none"
  /\ extractUrls(msg.content) # <<>>
  /\ MsgNextUrl([msg EXCEPT !.urls = extractUrls(msg.content)], submitted)
  /\ UNCHANGED notMsgVars

\* ingestOne: fetch resolves with some status
IngestFetchOk ==
  /\ msg.pc = "ingestFetch"
  /\ \E status \in {200, 500} :
       msg' = [msg EXCEPT !.status = status,
                          !.pc = IF ResOk(status) THEN "ingestJson" ELSE "ingestText"]
  /\ UNCHANGED <<submitted, reactions, msgLogs>>
  /\ UNCHANGED notMsgVars

\* ingestOne: fetch is rejected; the handler records the error
IngestFetchFail ==
  /\ msg.pc = "ingestFetch"
  /\ MsgNextUrl(WithErr(msg, "fetch failed"), Settled("failed"))
  /\ UNCHANGED notMsgVars

\* ingestOne: the body of the failure has been read (or not): throw
IngestTextDone ==
  /\ msg.pc = "ingestText"
  /\ MsgNextUrl(WithErr(msg, "Ingest failed 500"), Settled("failed"))
  /\ UNCHANGED notMsgVars

\* ingestOne: res.json() resolves with inserted true or not, or is rejected
\* and {} is returned
IngestJsonDone ==
  /\ msg.pc = "ingestJson"
  /\ \E out \in {"inserted", "notInserted", "notJson"} :
       MsgNextUrl(IF out = "inserted"
                  THEN [msg EXCEPT !.insertedCount = @ + 1]
                  ELSE [msg EXCEPT !.dedupedCount = @ + 1],
                  Settled(IF out = "inserted" THEN "inserted" ELSE "deduped"))
  /\ UNCHANGED notMsgVars

\* message.react resolves: the second success reaction, or the status line
ReactOk ==
  /\ msg.pc = "react"
  /\ reactions' = Append(reactions, msg.emoji)
  /\ IF msg.emoji = "inserted" /\ msg.dedupedCount > 0
     THEN /\ msg' = [msg EXCEPT !.emoji = "deduped"]
          /\ UNCHANGED msgLogs
     ELSE MsgStatus(msg)
  /\ UNCHANGED submitted
  /\ UNCHANGED notMsgVars

\* message.react is rejected
ReactFail ==
  /\ msg.pc = "react"
  /\ MsgCrash(msg)
  /\ UNCHANGED <<submitted, reactions>>
  /\ UNCHANGED notMsgVars

\* logToBotLogs(the status line) has ended
StatusLogged ==
  /\ msg.pc = "statusLog"
  /\ \E outcome \in LogOutcomes :
       IF logToBotLogs(outcome) = "returned"
       THEN msg' = [msg EXCEPT !.pc = "done"] /\ UNCHANGED msgLogs
       ELSE MsgCrash(msg)
  /\ UNCHANGED <<submitted, reactions>>
  /\ UNCHANGED notMsgVars

\* logToBotLogs("Handler crash ...") has ended
MsgCrashLogged ==
  /\ msg.pc = "crashLog"
  /\ \E outcome \in LogOutcomes :
       msg' = [msg EXCEPT !.pc = IF logToBotLogs(outcome) = "returned"
                                 THEN "done" ELSE "raised"]
  /\ UNCHANGED <<submitted, reactions, msgLogs>>
  /\ UNCHANGED notMsgVars

MsgNext ==
  \/ MsgIgnored
  \/ MsgHandled
  \/ IngestFetchOk
  \/ IngestFetchFail
  \/ IngestTextDone
  \/ IngestJsonDone
  \/ ReactOk
  \/ ReactFail
  \/ StatusLogged
  \/ MsgCrashLogged

(***************************************************************************)
(* The processing trigger: runProcessorOnce.  It has no reentrancy guard;  *)
(* the whole body is inside one try block, the two mustEnv calls included. *)
(***************************************************************************)
ProcessSettings == {"COCKPIT_PROCESS_URL", "COCKPIT_PROCESS_SECRET"}

\* the response bodies of the processing endpoint: text that is not JSON, or
\* JSON with its picked and processed counts
ProcessBodies ==
  {[json |-> FALSE, picked |-> 0, processed |-> 0]}
    \cup [json : {TRUE}, picked : 0..1, processed : 0..1]

NoProc(label) == [pc |-> label, ok |-> FALSE]

ProcInit ==
  /\ proc = [p \in Runs |-> NoProc("idle")]
  /\ procEnv \in SUBSET ProcessSettings
  /\ procLogs = {}

\* no processing timer fires
NoProcessor ==
  /\ proc = [p \in Runs |-> NoProc("done")]
  /\ procEnv = ProcessSettings
  /\ procLogs = {}

\* the invocations are numbered in the order their timers fire
ProcAtCall(p) ==
  /\ proc[p].pc = "idle"
  /\ \A q \in Runs : q < p => proc[q].pc # "idle"

\* invocation p passes a line to logToBotLogs and awaits it
ProcLog(p, kind) ==
  /\ proc' = [proc EXCEPT ![p].pc = kind]
  /\ procLogs' = procLogs \cup {<<p, kind>>}

\* an error inside the try block: catch, then logToBotLogs("... crash")
ProcCrash(p) == ProcLog(p, "crashLog")

\* mustEnv throws: a setting is missing
ProcStartMissing(p) ==
  /\ ProcAtCall(p)
  /\ procEnv # ProcessSettings
  /\ ProcCrash(p)
  /\ UNCHANGED procEnv
  /\ UNCHANGED notProcVars

\* the settings are read and the endpoint is requested
ProcStart(p) ==
  /\ ProcAtCall(p)
  /\ procEnv = ProcessSettings
  /\ proc' = [proc EXCEPT ![p].pc = "fetch"]
  /\ UNCHANGED <<procEnv, procLogs>>
  /\ UNCHANGED notProcVars

\* fetch resolves with a response, res.ok or not
ProcFetchOk(p) ==
  /\ proc[p].pc = "fetch"
  /\ \E ok \in BOOLEAN : proc' = [proc EXCEPT ![p].pc = "text", ![p].ok = ok]
  /\ UNCHANGED <<procEnv, procLogs>>
  /\ UNCHANGED notProcVars

\* fetch is rejected
ProcFetchFail(p) ==
  /\ proc[p].pc = "fetch"
  /\ ProcCrash(p)
  /\ UNCHANGED procEnv
  /\ UNCHANGED notProcVars

\* res.text() resolves: failure status, non-JSON body, or the counts, which
\* are logged when one of them is positive
ProcTextOk(p) ==
  /\ proc[p].pc = "text"
  /\ \E body \in ProcessBodies :
       IF ~proc[p].ok THEN ProcLog(p, "failLog")
       ELSE IF ~body.json THEN ProcLog(p, "nonJsonLog")
       ELSE IF body.picked > 0 \/ body.processed > 0
       THEN ProcLog(p, "summaryLog")
       ELSE proc' = [proc EXCEPT ![p] = NoProc("done")] /\ UNCHANGED procLogs
  /\ UNCHANGED procEnv
  /\ UNCHANGED notProcVars

\* res.text() is rejected
ProcTextFail(p) ==
  /\ proc[p].pc = "text"
  /\ ProcCrash(p)
  /\ UNCHANGED procEnv
  /\ UNCHANGED notProcVars

\* the logToBotLogs call of a line logged inside the try block settles
ProcLogged(p) ==
  /\ proc[p].pc \in {"failLog", "nonJsonLog", "summaryLog"}
  /\ \E outcome \in LogOutcomes :
       IF logToBotLogs(outcome) = "returned"
       THEN proc' = [proc EXCEPT ![p] = NoProc("done")] /\ UNCHANGED procLogs
       ELSE ProcCrash(p)
  /\ UNCHANGED procEnv
  /\ UNCHANGED notProcVars

\* the logToBotLogs call of the catch block settles
ProcCrashLogged(p) ==
  /\ proc[p].pc = "crashLog"
  /\ \E outcome \in LogOutcomes :
       IF logToBotLogs(outcome) = "returned"
       THEN proc' = [proc EXCEPT ![p] = NoProc("done")]
       ELSE proc' = [proc EXCEPT ![p] = NoProc("raised")]
  /\ UNCHANGED <<procEnv, procLogs>>
  /\ UNCHANGED notProcVars

ProcNext ==
  \E p \in Runs :
    \/ ProcStartMissing(p)
    \/ ProcStart(p)
    \/ ProcFetchOk(p)
    \/ ProcFetchFail(p)
    \/ ProcTextOk(p)
    \/ ProcTextFail(p)
    \/ ProcLogged(p)
    \/ ProcCrashLogged(p)

(***************************************************************************)
(* The settings read through clampInt and the startup handler              *)
(* client.once("ready"), which reads the three intervals and starts the    *)
(* timers.  The limits are read by the operations, on every invocation.    *)
(* A setting is the name of its environment variable with the default,     *)
(* the range and whether it is read as `process.env.X || default`.         *)
(***************************************************************************)
IntervalSettings ==
  {[name |-> "COCKPIT_PROCESS_INTERVAL_MIN", def |-> 10, min |-> 1,
    max |-> 1440, orDef |-> TRUE],
   [name |-> "COCKPIT_PUBLISH_INTERVAL_MIN", def |-> 15, min |-> 1,
    max |-> 1440, orDef |-> TRUE],
   [name |-> "COCKPIT_RSS_INTERVAL_MIN", def |-> 10, min |-> 1,
    max |-> 1440, orDef |-> TRUE]}

LimitSettings ==
  {[name |-> "COCKPIT_PROCESS_LIMIT", def |-> 20, min |-> 1, max |-> 50,
    orDef |-> TRUE],
   [name |-> "COCKPIT_PUBLISH_LIMIT", def |-> 5, min |-> 1, max |-> 10,
    orDef |-> TRUE],
   [name |-> "COCKPIT_TRIAGE_SCORE", def |-> 85, min |-> 1, max |-> 100,
    orDef |-> FALSE],
   [name |-> "COCKPIT_RSS_MAX_ITEMS_PER_FEED", def |-> 10, min |-> 1,
    max |-> 50, orDef |-> TRUE],
   [name |-> "COCKPIT_SEC_DELAY_MS", def |-> 1200, min |-> 0, max |-> 10000,
    orDef |-> TRUE],
   [name |-> "COCKPIT_RSS_LIMIT_SOURCES", def |-> 100, min |-> 1, max |-> 500,
    orDef |-> TRUE]}

Settings == IntervalSettings \cup LimitSettings

Names(settings) == {st.name : st \in settings}

Setting(name) == CHOOSE st \in Settings : st.name = name

\* what an environment variable can hold: nothing, the empty string, text
\* that spells no number, "Infinity", a whole number or a number and a half;
\* the numbers are at, next to and beyond the limits of st
EnvValues(st) ==
  {Undef, EmptyStr, Text, InfRaw}
    \cup {StrNum(n) : n \in {0 - 5, 0, st.min - 1, st.min, st.min + 1, st.def,
                             st.max - 1, st.max, st.max + 1}}
    \cup {StrHalf(n) : n \in {0 - 1, 0, st.min, st.max - 1, st.max}}

\* the clampInt call that reads setting st
ReadSetting(st) ==
  clampInt(IF st.orDef THEN OrElse(env[st.name], IntRaw(st.def))
           ELSE env[st.name],
           st.def, st.min, st.max)

Unread == [read |-> FALSE, v |-> 0]
Read(v) == [read |-> TRUE, v |-> v]

\* setTimeout(fn, after); setInterval(fn, minutes * 60 * 1000)
Timer(fn, after, minutes) ==
  [fn |-> fn, after |-> after, every |-> minutes * 60 * 1000]

ReadyInit ==
  /\ ready = "start"
  /\ \E st \in Settings :
       \E raw \in EnvValues(st) :
         env = [n \in Names(Settings) |-> IF n = st.name THEN raw ELSE Undef]
  /\ values = [n \in Names(Settings) |-> Unread]
  /\ timers = {}

\* console.log, then await logToBotLogs("Online as ...")
ReadyStart ==
  /\ ready = "start"
  /\ ready' = "onlineLog"
  /\ UNCHANGED <<env, values, timers>>
  /\ UNCHANGED notReadyVars

\* the intervals are read and the timers are started
ReadyOnlineLogged ==
  /\ ready = "onlineLog"
  /\ \E outcome \in LogOutcomes :
       IF logToBotLogs(outcome) = "returned"
       THEN /\ ready' = "done"
            /\ values' = [n \in Names(Settings) |->
                 IF n \in Names(IntervalSettings)
                 THEN Read(ReadSetting(Setting(n)))
                 ELSE values[n]]
            /\ timers' =
                 {Timer("runProcessorOnce", 25000,
                        values'["COCKPIT_PROCESS_INTERVAL_MIN"].v),
                  Timer("runPublisherOnce", 40000,
                        values'["COCKPIT_PUBLISH_INTERVAL_MIN"].v),
                  Timer("runRssOnce", 10000,
                        values'["COCKPIT_RSS_INTERVAL_MIN"].v)}
       ELSE /\ ready' = "raised"
            /\ UNCHANGED <<values, timers>>
  /\ UNCHANGED env
  /\ UNCHANGED notReadyVars

\* an operation started by a timer reads one of its limits
ReadLimit(st) ==
  /\ ready = "done"
  /\ ~values[st.name].read
  /\ values' = [values EXCEPT ![st.name] = Read(ReadSetting(st))]
  /\ UNCHANGED <<ready, env, timers>>
  /\ UNCHANGED notReadyVars

ReadyNext ==
  \/ ReadyStart
  \/ ReadyOnlineLogged
  \/ \E st \in LimitSettings : ReadLimit(st)

\* the program after a startup with no setting in the environment
Started ==
  /\ ready = "done"
  /\ env = [n \in Names(Settings) |-> Undef]
  /\ values = [n \in Names(Settings) |->
                 IF n \in Names(IntervalSettings)
                 THEN Read(Setting(n).def)
                 ELSE Unread]
  /\ timers = {Timer("runProcessorOnce", 25000, 10),
               Timer("runPublisherOnce", 40000, 15),
               Timer("runRssOnce", 10000, 10)}

(***************************************************************************)
(* One call of buildBriefMessage.                                          *)
(***************************************************************************)
BriefInit ==
  /\ briefItem \in BriefItems
  /\ briefLabel \in Labels
  /\ brief = NotRendered

\* no message is rendered
NoBrief ==
  /\ briefItem = [title |-> Missing, summary_1 |-> Missing,
                  why_it_matters |-> Missing, url |-> Missing,
                  bullets |-> NotArray, tags |-> NotArray,
                  relevance_score |-> IntRaw(85)]
  /\ briefLabel = [text |-> "REE", len |-> 3]
  /\ brief = NotRendered

\* const msg = buildBriefMessage(item, label)
Render ==
  /\ brief = NotRendered
  /\ brief' = buildBriefMessage(briefItem, briefLabel)
  /\ UNCHANGED <<briefItem, briefLabel>>
  /\ UNCHANGED notBriefVars

BriefNext == Render

(***************************************************************************)
(* Specifications, one for each part of the program.                       *)
(***************************************************************************)
\* the publisher; no feed poll runs and the feed settings are left unset
Init ==
  /\ PubInit
  /\ FeedInit /\ rssMaxEnv = Undef /\ secDelayEnv = Undef
  /\ RssInit
  /\ NoMessage
  /\ NoProcessor
  /\ Started
  /\ NoBrief

Next == PubNext

Spec == Init /\ [][Next]_vars

\* the feed poller; no publish timer fires, no output channel is configured
\* and the triage setting is left unset
FeedSpecInit ==
  /\ PubInit /\ briefChannel = [v \in Verticals |-> FALSE] /\ triageEnv = Undef
  /\ FeedInit
  /\ RssInit
  /\ NoMessage
  /\ NoProcessor
  /\ Started
  /\ NoBrief

FeedSpec == FeedSpecInit /\ [][FeedNext]_vars

\* the feed-poll cycle under its timer: runRssOnce and the polls it makes,
\* with COCKPIT_RSS_MAX_ITEMS_PER_FEED=1
RssSpecInit ==
  /\ PubInit /\ briefChannel = [v \in Verticals |-> FALSE] /\ triageEnv = Undef
  /\ FeedInit /\ rssMaxEnv = StrNum(1) /\ secDelayEnv = Undef
  /\ RssInit
  /\ NoMessage
  /\ NoProcessor
  /\ Started
  /\ NoBrief

RssNext ==
  \/ \E p \in Runs :
       \/ RssEnterLocked(p)
       \/ RssEnter(p)
       \/ RssListOk(p)
       \/ RssListFail(p)
       \/ RssPollReturned(p)
       \/ RssPollRaised(p)
       \/ RssErrLogged(p)
       \/ RssSummaryLogged(p)
       \/ RssCrashLogged(p)
  \/ SleepDone
  \/ FetchNotModified
  \/ FetchOk
  \/ FetchFail
  \/ TextNotOk
  \/ TextParseError
  \/ TextOk
  \/ TextFail
  \/ SeenOk
  \/ SeenFail
  \/ IngestOk
  \/ IngestFail
  \/ ReportOk
  \/ ReportFail
  \/ Report304Ok
  \/ Report304Fail
  \/ ErrReportDone

RssSpec == RssSpecInit /\ [][RssNext]_vars

\* the steps of a cycle in flight: the continuations of its awaited calls,
\* that is every action of RssNext but the firing of the timer
RssStep ==
  \/ \E p \in Runs :
       \/ RssListOk(p)
       \/ RssListFail(p)
       \/ RssPollReturned(p)
       \/ RssPollRaised(p)
       \/ RssErrLogged(p)
       \/ RssSummaryLogged(p)
       \/ RssCrashLogged(p)
  \/ SleepDone
  \/ FetchNotModified
  \/ FetchOk
  \/ FetchFail
  \/ TextNotOk
  \/ TextParseError
  \/ TextOk
  \/ TextFail
  \/ SeenOk
  \/ SeenFail
  \/ IngestOk
  \/ IngestFail
  \/ ReportOk
  \/ ReportFail
  \/ Report304Ok
  \/ Report304Fail
  \/ ErrReportDone

\* the feed-poll cycle when every awaited call eventually resolves or
\* rejects: the continuation of the call then runs on the event loop
RssLiveSpec == RssSpec /\ WF_vars(RssStep)

\* the message handler on one message; no timer fires
MsgSpecInit ==
  /\ PubInit /\ briefChannel = [v \in Verticals |-> FALSE] /\ triageEnv = Undef
  /\ FeedInit /\ rssMaxEnv = Undef /\ secDelayEnv = Undef
  /\ RssInit
  /\ MsgInit
  /\ NoProcessor
  /\ Started
  /\ NoBrief

MsgSpec == MsgSpecInit /\ [][MsgNext]_vars

(***************************************************************************)
(* The top-level operations the timers and the gateway start:              *)
(* runPublisherOnce, runRssOnce, runProcessorOnce and the message handler. *)
(* They share no variable of the program (publishLocks is the publisher's, *)
(* rssPolling is runRssOnce's), so a behaviour runs the invocations of one *)
(* of them, in every interleaving, while the others are not started.       *)
(***************************************************************************)
\* no publish timer fires
NoPublisher ==
  /\ publishLocks = [v \in Verticals |-> FALSE]
  /\ run = [p \in Runs |-> NoCycle("done")]
  /\ posted = {}
  /\ briefChannel = [v \in Verticals |-> FALSE]
  /\ triageEnv = Undef
  /\ sends = [i \in Items |-> 0]
  /\ redo = [i \in Items |-> 0]
  /\ crashLogs = {}

\* no feed-poll timer fires
NoRssCycle ==
  /\ FeedInit /\ rssMaxEnv = StrNum(1) /\ secDelayEnv = Undef
  /\ rssPolling = FALSE
  /\ rss = [p \in Runs |-> NoRss("done")]
  /\ listed = <<>>
  /\ polled = <<>>
  /\ rssLogs = <<>>

TopInit ==
  /\ Started
  /\ NoBrief
  /\ \/ /\ PubInit /\ triageEnv = Undef
        /\ NoRssCycle /\ NoMessage /\ NoProcessor
     \/ /\ FeedInit /\ rssMaxEnv = StrNum(1) /\ secDelayEnv = Undef
        /\ RssInit
        /\ NoPublisher /\ NoMessage /\ NoProcessor
     \/ /\ MsgInit
        /\ NoPublisher /\ NoRssCycle /\ NoProcessor
     \/ /\ ProcInit
        /\ NoPublisher /\ NoRssCycle /\ NoMessage

TopNext ==
  \/ PubNext
  \/ RssNext
  \/ MsgNext
  \/ ProcNext

TopSpec == TopInit /\ [][TopNext]_vars

\* the startup handler and the reads of the limits; no operation is modelled
ReadySpecInit ==
  /\ ReadyInit
  /\ NoBrief
  /\ NoPublisher /\ NoRssCycle /\ NoMessage /\ NoProcessor

ReadySpec == ReadySpecInit /\ [][ReadyNext]_vars

\* buildBriefMessage on one item; no operation is modelled
BriefSpecInit ==
  /\ BriefInit
  /\ Started
  /\ NoPublisher /\ NoRssCycle /\ NoMessage /\ NoProcessor

BriefSpec == BriefSpecInit /\ [][BriefNext]_vars

(***************************************************************************)
(* Properties of the publisher.                                            *)
(***************************************************************************)
\* C1: in a publish cycle markPosted is called for an item only after the
\* ch.send of that item has completed in that cycle, and, when the escalation
\* applies to it, after the triage send has completed too; an item whose send
\* was rejected is never passed to markPosted in that cycle.
C1_MarkOnlyAfterSend ==
  \A p \in Runs :
    /\ run[p].markCalled \subseteq run[p].sent
    /\ \A i \in run[p].markCalled :
         (run[p].triage /\ IsFinite(ItemScore(i)) /\ NumGE(ItemScore(i), TRIAGE_SCORE))
           => i \in run[p].escalated
    /\ run[p].failed \cap run[p].markCalled = {}

\* one item of the batch was sent and marked, the send of a later one failed
C1_Witness ==
  \E p \in Runs : run[p].marked # {} /\ run[p].failed # {} /\ run[p].pc = "crashLog"

\* C2: an invocation of publishVerticalOnce(v) made while the lock of v is held
\* does nothing: it is back in runPublisherOnce with no call in flight, and the
\* lock, the backend, the channels and every other invocation are as before.
C2_LockedInvocationIsNoOp ==
  [][\A p \in Runs :
       (AtCall(p) /\ publishLocks[CallVertical(p)] /\ run'[p] # run[p])
         => /\ run'[p] = NoCycle(AfterVertical(CallVertical(p)))
            /\ \A q \in Runs \ {p} : run'[q] = run[q]
            /\ UNCHANGED <<publishLocks, posted, sends, redo>>]_vars

\* invocation 2 has come back from publishVerticalOnce("ree") while invocation
\* 1, which fired first, is still sending in its cycle for "ree"
C2_Witness ==
  /\ MaxRuns >= 2
  /\ run[1].v = "ree" /\ run[1].pc = "send"
  /\ run[2].pc = "callCoal"
  /\ publishLocks["ree"]

\* C3 as stated: no item is sent to its output channel more than once.
C3_NeverSentTwice == \A i \in Items : sends[i] <= 1

\* C3, amended: an item is sent once, plus at most once more for every triage
\* send or markPosted call for it that was rejected; no item is being sent
\* while the backend has it marked as posted, and two invocations never send
\* the same item at the same time.
C3_SentOncePerFailure ==
  /\ \A i \in Items : sends[i] <= 1 + redo[i]
  /\ \A p \in Runs : run[p].pc = "send" => CurItem(p) \notin posted
  /\ \A p, q \in Runs :
       (p # q /\ run[p].pc = "send" /\ run[q].pc = "send") => CurItem(p) # CurItem(q)

\* an item was sent, its markPosted was rejected, a later cycle sent it again
\* and marked it
C3_Witness ==
  \E i \in Items : sends[i] = 2 /\ redo[i] = 1 /\ i \in posted

\* C4: the lock of v is held exactly while one invocation is inside its cycle
\* for v, so every invocation that took the lock has released it when it ends,
\* whatever the outcome.
C4_LockReleasedOnExit ==
  \A v \in Verticals :
    /\ publishLocks[v] <=> (\E p \in Runs : run[p].v = v)
    /\ \A p, q \in Runs : (run[p].v = v /\ run[q].v = v) => p = q

\* the cycle of invocation 1 for "ree" ended in a rejected markPosted, and
\* invocation 2 has passed the guard for "ree"
C4_Witness ==
  /\ MaxRuns >= 2
  /\ \E i \in Items : redo[i] = 1 /\ Pool[i].vertical = "ree"
  /\ run[1].v # "ree"
  /\ run[2].v = "ree" /\ run[2].pc = "fetchUnposted"

\* C5 as stated: with a triage channel, the escalated copy is sent exactly for
\* the items whose score is >= the threshold.
C5_EscalatedIffAtLeastThreshold ==
  \A p \in Runs :
    run[p].triage =>
      /\ \A i \in run[p].escalated : NumGE(ItemScore(i), TRIAGE_SCORE)
      /\ run[p].pc = "triageSend" => NumGE(ItemScore(CurItem(p)), TRIAGE_SCORE)
      /\ \A i \in run[p].marked :
           NumGE(ItemScore(i), TRIAGE_SCORE) => i \in run[p].escalated

\* C5, amended: with a triage channel, the escalated copy is sent exactly for
\* the items whose score is a finite number >= the threshold (the boundary
\* included); none is sent without a triage channel.
C5_EscalatedIffFiniteAtLeastThreshold ==
  \A p \in Runs :
    /\ ~run[p].triage => run[p].escalated = {} /\ run[p].pc # "triageSend"
    /\ run[p].triage =>
         /\ \A i \in run[p].escalated :
              IsFinite(ItemScore(i)) /\ NumGE(ItemScore(i), TRIAGE_SCORE)
         /\ run[p].pc = "triageSend" =>
              IsFinite(ItemScore(CurItem(p))) /\ NumGE(ItemScore(CurItem(p)), TRIAGE_SCORE)
         /\ \A i \in run[p].marked :
              (IsFinite(ItemScore(i)) /\ NumGE(ItemScore(i), TRIAGE_SCORE))
                => i \in run[p].escalated

\* threshold 85: the item scored 85 was escalated and marked, the item scored
\* 84 was marked without escalation
C5_Witness ==
  /\ TRIAGE_SCORE = 85
  /\ \E p \in Runs :
       /\ run[p].triage
       /\ 1 \in run[p].escalated /\ 1 \in run[p].marked
       /\ 2 \in run[p].marked /\ 2 \notin run[p].escalated

\* the items of the batch of invocation p up to index k
BatchUpTo(p, k) == {run[p].items[n] : n \in 1..k}

\* C22: a rejected ch.send, triageCh.send or markPosted takes the cycle to
\* its crash handler with the loop at that item, and from there the cycle
\* only ends: it sends nothing, marks nothing and calls nothing more.  At
\* that point every item sent or passed to markPosted is at or before the
\* failed item in the batch, every item marked is before it and was sent, and
\* the failed item is not marked: the backend still lists it as unposted.
C22_CycleStopsAtFailedItem ==
  /\ [](\A p \in Runs :
         /\ run[p].marked \subseteq run[p].markCalled
         /\ run[p].markCalled \subseteq run[p].sent
         /\ run[p].failed # {} =>
              run[p].pc = "crashLog" /\ run[p].failed = {CurItem(p)}
         /\ (run[p].pc = "crashLog" /\ run[p].k > 0) =>
              /\ run[p].sent \subseteq BatchUpTo(p, run[p].k)
              /\ run[p].marked \subseteq BatchUpTo(p, run[p].k - 1)
              /\ CurItem(p) \notin run[p].marked
              /\ CurItem(p) \in Unposted(run[p].v))
  /\ [][\A p \in Runs :
          /\ (run'[p].failed # run[p].failed \/ redo' # redo)
               /\ run[p].pc \in {"send", "triageSend", "mark"}
               /\ run'[p] # run[p]
               => /\ run'[p].pc = "crashLog"
                  /\ run'[p].k = run[p].k
                  /\ UNCHANGED <<sends, posted>>
          /\ (run[p].pc = "crashLog" /\ run'[p] # run[p])
               => /\ run'[p] \in {NoCycle(AfterVertical(run[p].v)),
                                  NoCycle("raised")}
                  /\ UNCHANGED <<sends, posted, redo>>]_vars

\* the first item of a batch of two was sent and marked, the second was sent
\* and its markPosted was rejected: the cycle is at its crash handler
C22_Witness ==
  \E p \in Runs :
    /\ run[p].pc = "crashLog" /\ run[p].k = 2 /\ Len(run[p].items) >= 2
    /\ run[p].marked = {run[p].items[1]}
    /\ run[p].sent = {run[p].items[1], run[p].items[2]}
    /\ run[p].failed = {}
    /\ redo[run[p].items[2]] = 1

(***************************************************************************)
(* Properties of pollOneFeed.                                              *)
(***************************************************************************)
PollEnded == poll.pc \in {"returned", "raised"}

\* an ingestRssItem call of this poll was rejected: every call that resolved
\* pushed its key on newlySeen
IngestFailed == poll.pc \in {"errReport", "raised"} /\ Len(forwarded) > Len(poll.newlySeen)

\* the keys of the items at the indices q
KeysAt(q) == [n \in 1..Len(q) |-> KeyOf(poll.items[q[n]])]

Elems(q) == {q[n] : n \in 1..Len(q)}

\* the indices of the items whose ingestRssItem call resolved
Ingested == SubSeq(forwarded, 1, Len(poll.newlySeen))

\* C6: a rejected ingestRssItem call does not abort the poll: when the poll has
\* ended, every other item with a key, a link and an unseen key was forwarded,
\* and the keys of the items whose call resolved were reported as newly seen.
C6_IngestFailureIsolated ==
  (PollEnded /\ IngestFailed) =>
    /\ \A n \in 1..Len(poll.items) :
         (Usable(KeyOf(poll.items[n]), LinkOf(poll.items[n]))
            /\ ~IsSeen(poll.seenSet, KeyOf(poll.items[n])))
           => n \in Elems(forwarded)
    /\ \E m \in 1..Len(reports) : reports[m].seen_keys = KeysAt(Ingested)

\* C7: every report with a non-null last_error carries the validators the
\* source had when the poll started.
C7_ErrorReportKeepsValidators ==
  \A m \in 1..Len(reports) :
    reports[m].last_error # "null" =>
      /\ reports[m].etag = poll.src.etag
      /\ reports[m].last_modified = poll.src.last_modified

\* C8: on a 304 the poll posts no seen-key query and forwards nothing; its
\* first report carries the validators of the source, a null error and no
\* keys, no report of the poll carries other validators or any key, and a poll
\* that returns has posted that one report and returns zero counts.
C8_NotModifiedReportsUnchanged ==
  poll.status = 304 =>
    /\ seenCalls = 0
    /\ forwarded = <<>>
    /\ Len(reports) >= 1
    /\ reports[1] = [etag |-> poll.src.etag, last_modified |-> poll.src.last_modified,
                     last_error |-> "null", seen_keys |-> <<>>]
    /\ \A m \in 1..Len(reports) :
         /\ reports[m].etag = poll.src.etag
         /\ reports[m].last_modified = poll.src.last_modified
         /\ reports[m].seen_keys = <<>>
    /\ poll.pc = "returned" =>
         /\ Len(reports) = 1
         /\ result.kind = "returned"
         /\ result.fetched = 0 /\ result.ingested = 0 /\ result.skipped = 0

\* a source with stored validators was answered 304 and the poll has returned
C8_Witness ==
  /\ poll.pc = "returned" /\ poll.status = 304
  /\ poll.src.etag = "e0" /\ poll.src.last_modified = "m0"

\* C9: no forwarded item has a key of the seen-key response, and a report
\* with a null error sent after the loop lists exactly the keys of the
\* forwarded items, in order, none of them a key of the seen-key response.
C9_OnlyUnseenForwarded ==
  /\ \A n \in 1..Len(forwarded) : KeyOf(poll.items[forwarded[n]]) \notin poll.seenSet
  /\ \A m \in 1..Len(reports) :
       (reports[m].last_error = "null" /\ poll.status # 304) =>
         /\ reports[m].seen_keys = KeysAt(forwarded)
         /\ Elems(reports[m].seen_keys) \cap poll.seenSet = {}

\* two items with different keys, one in the seen-key response: the other one
\* alone was forwarded and reported
C9_Witness ==
  /\ poll.pc = "returned"
  /\ Len(poll.items) = 2
  /\ KeyOf(poll.items[1]) \in poll.seenSet
  /\ Usable(KeyOf(poll.items[1]), LinkOf(poll.items[1]))
  /\ forwarded = <<2>>
  /\ reports[1].seen_keys = <<KeyOf(poll.items[2])>>

C23_EveryPollReports ==
  /\ poll.pc = "returned" =>
       Len(reports) = 1 /\ reports[1].last_error = "null"
  /\ poll.pc = "raised" =>
       /\ Len(reports) \in {1, 2}
       /\ reports[Len(reports)].last_error # "null"
       /\ reports[Len(reports)].seen_keys = <<>>
       /\ \A n \in 1..(Len(reports) - 1) : reports[n].last_error = "null"
  /\ poll.pc \in {"returned", "raised"} => reports # <<>>

\* the report posted after the loop, naming a newly seen key, was rejected:
\* the error report was posted after it and the call has thrown
C23_Witness ==
  /\ poll.pc = "raised"
  /\ Len(reports) = 2
  /\ reports[1].last_error = "null" /\ reports[1].seen_keys # <<>>
  /\ reports[2].last_error = "error" /\ reports[2].seen_keys = <<>>

(***************************************************************************)
(* Properties of runRssOnce.                                               *)
(***************************************************************************)
\* invocation p is between the guard and the release of the flag
InFlight(p) == rss[p].pc \in {"list", "poll", "errLog", "summaryLog", "crashLog"}

\* the "RSS poll error" lines logged so far
PollErrorLines == SelectSeq(rssLogs, LAMBDA l : l.kind = "pollError")

\* the line expected for every call of pollOneFeed that threw, in order
FailedCalls ==
  LET idx == SelectSeq([n \in 1..Len(polled) |-> n],
                       LAMBDA n : polled[n].outcome \in {"cause", "report"})
  IN [k \in 1..Len(idx) |-> LogLine("pollError", idx[k], polled[idx[k]].outcome)]

\* C11: the sources are polled in listing order, one call each; a call of
\* pollOneFeed that throws, with the error it caught or with the rejection of
\* its error report, is logged for its source and for no other, never sends
\* the cycle to the crash handler, and the cycle ends only when every listed
\* source has been polled.
C11_PollFailureIsolated ==
  /\ Len(polled) <= Len(listed)
  /\ \A n \in 1..Len(polled) : polled[n].src = listed[n]
  /\ \A p \in Runs :
       rss[p].pc \in {"poll", "errLog"}
         => rss[p].sources = listed /\ Len(polled) = rss[p].s
  /\ (~rssPolling \/ \E p \in Runs : rss[p].pc = "summaryLog")
       => Len(polled) = Len(listed)
  /\ \A n \in 1..Len(rssLogs) : rssLogs[n].kind = "crash" => listed = <<>>
  /\ PollErrorLines = FailedCalls

\* the poll of the first of two sources threw from its rejected error report;
\* the second source has been polled and its poll has returned
C11_Witness ==
  \E p \in Runs :
    /\ rss[p].pc = "poll" /\ rss[p].s = 2
    /\ polled[1].outcome = "report"
    /\ poll.pc = "returned"

\* C12: an invocation of runRssOnce made while the flag is set does nothing:
\* it has returned, and the flag, the listing, the polls, the reports, the
\* ingestion calls, the log and every other invocation are as before; at most
\* one invocation is between the guard and the release of the flag.
C12_BusyInvocationIsNoOp ==
  /\ [][\A p \in Runs :
          (RssAtCall(p) /\ rssPolling /\ rss'[p] # rss[p])
            => /\ rss'[p] = NoRss("done")
               /\ \A q \in Runs \ {p} : rss'[q] = rss[q]
               /\ UNCHANGED <<rssPolling, listed, polled, rssLogs, feedVars>>]_vars
  /\ [](\A p, q \in Runs : (InFlight(p) /\ InFlight(q)) => p = q)

\* invocation 2 has returned at the guard while invocation 1, which fired
\* first, is awaiting an ingestion call of its poll
C12_Witness ==
  /\ MaxRuns >= 2
  /\ rssPolling
  /\ rss[1].pc = "poll" /\ poll.pc = "ingest"
  /\ rss[2].pc = "done"

\* C21: an invocation of runRssOnce that passed the guard holds the flag
\* until it ends, and the step that ends it (an empty listing, a rejected
\* listing, the end of the loop whatever the polls did, the crash handler)
\* clears the flag; when every awaited call resolves or rejects, an invocation
\* in flight does end with the flag clear; and a timer firing that finds the
\* flag clear passes the guard, sets the flag and asks for the listing.
C21_FlagClearedWhenCycleEnds ==
  /\ [](\A p \in Runs : InFlight(p) => rssPolling)
  /\ [][\A p \in Runs :
          (InFlight(p) /\ rss'[p].pc \notin
                            {"list", "poll", "errLog", "summaryLog", "crashLog"})
            => /\ rss'[p].pc \in {"done", "raised"}
               /\ rssPolling' = FALSE]_vars
  /\ \A p \in Runs : InFlight(p) ~> (~InFlight(p) /\ ~rssPolling)
  /\ [][\A p \in Runs :
          (RssAtCall(p) /\ ~rssPolling /\ rss'[p] # rss[p])
            => rss'[p].pc = "list" /\ rssPolling']_vars

\* invocation 1 has ended with the flag clear after the polls of both of its
\* sources threw; the timer has not fired again yet
C21_Witness ==
  /\ MaxRuns >= 2
  /\ rss[1].pc = "done" /\ rss[2].pc = "idle"
  /\ ~rssPolling
  /\ Len(listed) = 2 /\ Len(polled) = 2
  /\ \A n \in 1..2 : polled[n].outcome \in {"cause", "report"}

(***************************************************************************)
(* Properties of the message handler.                                      *)
(***************************************************************************)
\* the calls of ingestOne that ended with `outcome`
CallsWith(outcome) == SelectSeq(submitted, LAMBDA c : c.outcome = outcome)

\* the position of the first occurrence of u among the matches of the message
FirstMatch(u) ==
  CHOOSE n \in 1..Len(Matches(msg.content)) :
    /\ Matches(msg.content)[n] = u
    /\ \A k \in 1..(n - 1) : Matches(msg.content)[k] # u

\* the handler is past its loop over the urls
LoopOver ==
  /\ msg.urls # <<>>
  /\ msg.pc \in {"react", "statusLog", "crashLog", "done", "raised"}

\* C13: when a submission of the message has failed the only reaction applied
\* is the warning, and the status line the handler then logs carries the
\* numbers of submissions that inserted and that did not, and exactly the
\* failed urls with their errors, in order; when none failed the warning is
\* never applied and the line carries the two counts; once the reactions due
\* are applied the status line is logged.
C13_ReactionsExclusive ==
  /\ CallsWith("failed") # <<>> =>
       \A n \in 1..Len(reactions) : reactions[n] = "warning"
  /\ CallsWith("failed") = <<>> =>
       \A n \in 1..Len(reactions) : reactions[n] \in {"inserted", "deduped"}
  /\ Len(reactions) <= 2
  /\ \A a, b \in 1..Len(reactions) : a # b => reactions[a] # reactions[b]
  /\ \A n \in 1..Len(msgLogs) :
       msgLogs[n].kind \in {"ingest", "errors"} =>
         /\ msgLogs[n].kind = "errors" <=> CallsWith("failed") # <<>>
         /\ msgLogs[n].inserted = Len(CallsWith("inserted"))
         /\ msgLogs[n].deduped = Len(CallsWith("deduped"))
         /\ Len(msgLogs[n].errs) = Len(CallsWith("failed"))
         /\ \A k \in 1..Len(msgLogs[n].errs) :
              /\ msgLogs[n].errs[k].url = CallsWith("failed")[k].url
              /\ msgLogs[n].errs[k].err \in {"fetch failed", "Ingest failed 500"}
  /\ (msg.pc = "done" /\ msg.urls # <<>> /\ \A n \in 1..Len(msgLogs) : msgLogs[n].kind # "crash")
       => /\ Len(msgLogs) = 1
          /\ CallsWith("failed") # <<>> => reactions = <<"warning">>
          /\ CallsWith("failed") = <<>> =>
               /\ ("inserted" \in {reactions[n] : n \in 1..Len(reactions)})
                    <=> Len(CallsWith("inserted")) > 0
               /\ ("deduped" \in {reactions[n] : n \in 1..Len(reactions)})
                    <=> Len(CallsWith("deduped")) > 0

\* three urls: one inserted, one not inserted, one failed; the warning is the
\* only reaction and the status line has been logged
C13_Witness ==
  /\ msg.pc = "done"
  /\ Len(CallsWith("inserted")) = 1 /\ Len(CallsWith("deduped")) = 1
  /\ Len(CallsWith("failed")) = 1
  /\ reactions = <<"warning">>
  /\ Len(msgLogs) = 1 /\ msgLogs[1].kind = "errors"

\* C14: the urls submitted are urls of the message, no url twice, in the
\* order of their first occurrence in the message; once the loop is over
\* every url of the message has been submitted, whatever failed, and the
\* submissions that inserted, that did not and that failed add up to the
\* number of distinct urls of the message.
C14_EveryUrlSubmittedOnce ==
  /\ \A n \in 1..Len(submitted) :
       \E k \in 1..Len(Matches(msg.content)) : Matches(msg.content)[k] = submitted[n].url
  /\ \A a, b \in 1..Len(submitted) :
       a < b => /\ submitted[a].url # submitted[b].url
                /\ FirstMatch(submitted[a].url) < FirstMatch(submitted[b].url)
                /\ submitted[a].outcome # "pending"
  /\ LoopOver =>
       /\ {submitted[n].url : n \in 1..Len(submitted)}
            = {Matches(msg.content)[k] : k \in 1..Len(Matches(msg.content))}
       /\ Len(CallsWith("inserted")) + Len(CallsWith("deduped"))
            + Len(CallsWith("failed"))
            = Cardinality({Matches(msg.content)[k] : k \in 1..Len(Matches(msg.content))})
       /\ msg.insertedCount = Len(CallsWith("inserted"))
       /\ msg.dedupedCount = Len(CallsWith("deduped"))
       /\ Len(msg.errs) = Len(CallsWith("failed"))

\* a message with the same url twice and another one: the first submission
\* failed, the second was still made, the loop is over
C14_Witness ==
  /\ LoopOver
  /\ Len(Matches(msg.content)) = 3
  /\ Len(submitted) = 2
  /\ submitted[1].outcome = "failed"
  /\ submitted[2].outcome = "inserted"

(***************************************************************************)
(* Properties of the publisher's error handling.                           *)
(***************************************************************************)
\* C19: an invocation whose cycle for a vertical has failed logs the crash
\* line of that vertical, releases the lock and returns to runPublisherOnce,
\* which goes on with coal when the failed cycle was ree's; crash lines are
\* logged by failed cycles only, and no runPublisherOnce ends with an error.
C19_VerticalFailureContained ==
  /\ [][ /\ \A p \in Runs :
              (run[p].pc = "crashLog" /\ run'[p].pc # "crashLog") =>
                /\ <<p, run[p].v>> \in crashLogs'
                /\ ~publishLocks'[run[p].v]
                /\ run[p].v = "ree" => run'[p].pc = "callCoal"
                /\ run[p].v = "coal" => run'[p].pc = "done"
         /\ \A p \in Runs :
              (run[p].pc # "crashLog" /\ run'[p].pc = "crashLog") =>
                run[p].pc \in {"fetchUnposted", "fetchChannel", "fetchTriage",
                               "send", "triageSend", "mark"}
         /\ crashLogs' # crashLogs =>
              \E p \in Runs : /\ run[p].pc = "crashLog"
                              /\ crashLogs' = crashLogs \cup {<<p, run[p].v>>}
       ]_vars
  /\ [](\A p \in Runs : run[p].pc # "raised")

\* the cycle for ree of an invocation has failed and the same invocation is
\* sending a coal item
C19_Witness ==
  \E p \in Runs :
    /\ <<p, "ree">> \in crashLogs
    /\ run[p].v = "coal"
    /\ run[p].pc = "send"

(***************************************************************************)
(* Properties of the top-level operations.                                 *)
(***************************************************************************)
\* the lines the handler's catch block has logged
HandlerCrashLines == SelectSeq(msgLogs, LAMBDA l : l.kind = "crash")

\* C15: whatever calls fail, no invocation of runPublisherOnce, runRssOnce or
\* runProcessorOnce and no message handler ends with an error.
C15_NoFailureEscapes ==
  /\ \A p \in Runs : run[p].pc # "raised"
  /\ \A p \in Runs : rss[p].pc # "raised"
  /\ \A p \in Runs : proc[p].pc # "raised"
  /\ msg.pc # "raised"

\* a reaction of the handler was rejected; the handler has logged the crash
\* and completed
C15_Witness ==
  /\ msg.pc = "done"
  /\ Len(submitted) > 0
  /\ Len(HandlerCrashLines) = 1

\* the invocations inside publishVerticalOnce(v), past its guard
PubHolders(v) == {p \in Runs : run[p].v = v}

\* the invocations inside runRssOnce, past its guard
RssHolders == {p \in Runs : InFlight(p)}

\* C18: a flag is set exactly while one invocation is past the guard it
\* protects, and never two; it is set in the step that passes the guard,
\* cleared by a step of the invocation that set it, and left as it is by a
\* step of any other invocation, a dropped one included.
C18_GuardCheckAndSetAtomic ==
  /\ [](\A v \in Verticals :
          /\ Cardinality(PubHolders(v)) <= 1
          /\ publishLocks[v] <=> PubHolders(v) # {})
  /\ [](/\ Cardinality(RssHolders) <= 1
        /\ rssPolling <=> RssHolders # {})
  /\ [][ /\ \A v \in Verticals, p \in Runs :
              (run'[p] # run[p] /\ publishLocks'[v] # publishLocks[v]) =>
                \/ ~publishLocks[v] /\ AtCall(p) /\ run'[p].v = v
                \/ publishLocks[v] /\ run[p].v = v /\ run'[p].v # v
         /\ \A p \in Runs :
              (rss'[p] # rss[p] /\ rssPolling' # rssPolling) =>
                \/ ~rssPolling /\ RssAtCall(p) /\ InFlight(p)'
                \/ rssPolling /\ InFlight(p) /\ ~InFlight(p)'
         /\ \A p \in Runs :
              (AtCall(p) /\ LockHeld(CallVertical(p)) /\ run'[p] # run[p]) =>
                publishLocks' = publishLocks
         /\ \A p \in Runs :
              (RssAtCall(p) /\ RssBusy /\ rss'[p] # rss[p]) =>
                rssPolling' = rssPolling
       ]_vars

\* an invocation holds the lock of ree while another one, dropped at ree, is
\* already past it
C18_Witness ==
  \E p, q \in Runs :
    /\ p # q
    /\ run[p].v = "ree" /\ run[p].pc = "send"
    /\ publishLocks["ree"]
    /\ run[q].pc \in {"callCoal", "done"}

(***************************************************************************)
(* Properties of the settings.                                             *)
(***************************************************************************)
\* the settings that have been read
ReadSettings == {st \in Settings : values[st.name].read}

\* the whole number i limited to the range of setting st
Limited(st, i) == IF i < st.min THEN st.min ELSE IF i > st.max THEN st.max ELSE i

\* the timers are the three of the ready handler, with the intervals read
TimersStarted ==
  /\ \A st \in IntervalSettings : st \in ReadSettings
  /\ timers =
       {[fn |-> "runProcessorOnce", after |-> 25000,
         every |-> 60000 * values["COCKPIT_PROCESS_INTERVAL_MIN"].v],
        [fn |-> "runPublisherOnce", after |-> 40000,
         every |-> 60000 * values["COCKPIT_PUBLISH_INTERVAL_MIN"].v],
        [fn |-> "runRssOnce", after |-> 10000,
         every |-> 60000 * values["COCKPIT_RSS_INTERVAL_MIN"].v]}

\* C17 as claimed: a setting that is unset, not numeric or outside its range
\* is read as its default, a whole number inside the range as itself, and the
\* ready handler does not fail.
C17_OutOfRangeYieldsDefault ==
  /\ ready # "raised"
  /\ \A st \in ReadSettings :
       LET raw == env[st.name]
           v == values[st.name].v
       IN /\ raw.k \in {"undef", "empty", "text", "inf"} => v = st.def
          /\ (raw.k = "numstr" /\ (raw.n < st.min \/ raw.n > st.max)) =>
               v = st.def
          /\ (raw.k = "numstr" /\ raw.n >= st.min /\ raw.n <= st.max) =>
               v = raw.n

\* C17: a setting that is unset, or whose text spells no number or
\* "Infinity", is read as its default; the empty string is read as the
\* default where the setting is read with `|| default` and as 0 limited to
\* the range where it is not (the triage score); a finite number is rounded
\* down and limited to the range: min below the range, max above it, its
\* whole part inside.  The ready handler does not fail and starts the three
\* timers with the intervals read.
C17_NonFiniteYieldsDefaultElseClamped ==
  /\ ready # "raised"
  /\ ready = "done" => TimersStarted
  /\ \A st \in ReadSettings :
       LET raw == env[st.name]
           v == values[st.name].v
       IN /\ raw.k \in {"undef", "text", "inf"} => v = st.def
          /\ raw.k = "empty" =>
               v = IF st.orDef THEN st.def ELSE Limited(st, 0)
          /\ raw.k \in {"numstr", "fracstr"} =>
               /\ raw.n < st.min => v = st.min
               /\ raw.n > st.max => v = st.max
               /\ (raw.n >= st.min /\ raw.n <= st.max) => v = raw.n

\* the publish interval is set one above its range: the timer is started
\* with the upper limit
C17_Witness ==
  /\ ready = "done"
  /\ env["COCKPIT_PUBLISH_INTERVAL_MIN"] = StrNum(1441)
  /\ values["COCKPIT_PUBLISH_INTERVAL_MIN"] = Read(1440)
  /\ \E t \in timers : t.fn = "runPublisherOnce" /\ t.every = 86400000

(***************************************************************************)
(* Properties of the message rendering.                                    *)
(***************************************************************************)
\* the length of the part of a kind in a message, 0 when it has none
PartLen(mg, kind) ==
  IF \E n \in 1..Len(mg.parts) : mg.parts[n].kind = kind
  THEN (CHOOSE part \in {mg.parts[n] : n \in 1..Len(mg.parts)} :
          part.kind = kind).len
  ELSE 0

\* the texts of an array that are not blank
NonBlank(arr) == SelectSeq(arr.elems, LAMBDA t : TrimLen(t) > 0)

\* the length of a block of the first k non-blank texts of an array, each
\* with `lead` code units before it, `sep` between two and `before` in front
BlockLen(arr, k, before, lead, sep) ==
  LET q == NonBlank(arr)
      n == IF Len(q) < k THEN Len(q) ELSE k
  IN IF ~arr.array \/ n = 0 THEN 0
     ELSE before + SumSeq([i \in 1..n |-> lead + TrimLen(q[i])]) + sep * (n - 1)

\* the part of a text field: nothing when the field is blank
FieldLen(t, before) == IF TrimLen(t) = 0 THEN 0 ELSE before + TrimLen(t)

\* C16: the message returned is at most 1900 long.  It is the full rendering
\* (up to 5 bullet lines, up to 6 tags) when that is at most 1900 long;
\* otherwise the rendering with at most 3 bullet lines and no tags, and with
\* the same header, title, summary, why-it-matters and source parts, when
\* that is at most 1900 long; otherwise the first 1890 code units of that
\* second rendering followed by the marker.
C16_BriefWithinCeiling ==
  brief # NotRendered =>
    LET full == FullRendering(briefItem, briefLabel)
        short == ShortRendering(briefItem, briefLabel)
    IN /\ MsgLength(brief) <= 1900
       /\ MsgLength(full) <= 1900 => brief = full
       /\ (MsgLength(full) > 1900 /\ MsgLength(short) <= 1900) => brief = short
       /\ (MsgLength(full) > 1900 /\ MsgLength(short) > 1900) =>
            /\ brief.marker /\ brief.cut = 1890
            /\ brief.parts = short.parts
            /\ MsgLength(brief) = 1891
       /\ ~brief.marker => brief.cut = 0
       /\ \A kind \in {"header", "title", "summary", "why", "source"} :
            PartLen(short, kind) = PartLen(full, kind)
       /\ PartLen(full, "summary") = FieldLen(briefItem.summary_1, 1)
       /\ PartLen(full, "why") = FieldLen(briefItem.why_it_matters, 21)
       /\ PartLen(full, "source") = FieldLen(briefItem.url, 13)
       /\ PartLen(full, "title") \in {15, FieldLen(briefItem.title, 5)}
       /\ PartLen(full, "bullets") = BlockLen(briefItem.bullets, 5, 1, 2, 1)
       /\ PartLen(short, "bullets") = BlockLen(briefItem.bullets, 3, 1, 2, 1)
       /\ PartLen(full, "tags") = BlockLen(briefItem.tags, 6, 11, 0, 2)
       /\ PartLen(short, "tags") = 0

\* the full rendering is one over the ceiling: the message returned has three
\* of the five bullet lines and no tags, and is not cut
C16_Witness ==
  /\ brief # NotRendered
  /\ MsgLength(FullRendering(briefItem, briefLabel)) = 1901
  /\ PartLen(FullRendering(briefItem, briefLabel), "tags") > 0
  /\ PartLen(brief, "tags") = 0
  /\ PartLen(brief, "bullets") = 129
  /\ PartLen(brief, "summary") > 0 /\ PartLen(brief, "source") > 0
  /\ ~brief.marker

\* C20 as claimed: the text an invocation sends to the output channel of its
\* vertical is at most 1900 long.
C20_PostedWithinCeiling ==
  \A p \in Runs : run[p].pc = "send" => PostedLength(run[p].msg) <= 1900

====
